---- MODULE Spec2Model ----
(***************************************************************************)
(* Flow editor: the diagram (process and resource nodes, their ports, the  *)
(* connections), the auto-layout pass autoArrangeNodes, the connection     *)
(* refresh, the change watcher with its timers, and payload loading.       *)
(*                                                                         *)
(* Lengths and coordinates are integers in units of 0.01 px, so that the   *)
(* refresh nudge epsilon = 0.01 is one unit; Px(n) converts whole pixels.  *)
(* All halvings in the layout arithmetic are exact for whole-pixel sizes.  *)
(***************************************************************************)
EXTENDS Integers, Sequences, FiniteSets, TLC

VARIABLES
    graphNodes,          \* graph.nodes, in creation order; each node carries its position
    connections,         \* graph.connections, in creation order
    scaling,             \* graph.scaling
    panning,             \* graph.panning
    innerWidth,          \* window.innerWidth
    innerHeight,         \* window.innerHeight
    elements,            \* the DOM: node id -> natural rendered size of its element
    suppressAutoArrange, \* suppressAutoArrange.value
    timers,              \* pending setTimeout callbacks
    frames,              \* pending requestAnimationFrame callbacks
    dragging,            \* the node the user is dragging, or NoNode
    draft,               \* sessionStorage[draftStorageKey]: a sequence of at most one payload
    nextId,              \* source of fresh node ids
    lastOp,              \* the handler or callback of the program that ran last
    lastPass,            \* the groups and the orientation of the latest layout pass
    passCount,           \* layout passes run so far
    editCount,           \* structural edits made so far
    dragMoves,           \* pointer moves made while dragging so far
    loaded,              \* the latest load, while the user changed nothing since: positions restored, node states read
    contactEmail,        \* contactEmail.value, a sequence of characters
    contactPhone,        \* contactPhone.value, a sequence of characters
    storedEmail,         \* getStoredEmail(): the e-mail address the sign-in stored, or <<>>
    authToken,           \* authToken.value, "" when signed out
    currentFlowId,       \* currentFlowId.value, "" for null
    isSaving,            \* isSaving.value
    pendingSave,         \* pendingSave.value
    saveError,           \* saveError.value
    saveStatus,          \* saveStatus.value
    fetching,            \* the save request in flight: a sequence of at most one request
    modalOpen,           \* the sign-in dialog is open
    saveClicks,          \* clicks on the Save button so far
    given,               \* node id -> the position the latest pass, load, drag or constructor gave it
    appkit,              \* services/reownAppkit: appkitInstance, initPromise, the initializations begun
    autocomplete,        \* the title autocomplete of a resource node: its refs, timer and requests
    flows                \* the flow server: the stored flows and the latest response

\* the state of the save toolbar and of the sign-in
\* services/reownAppkit before any call: appkitInstance and initPromise are null (0)
NoAppKit ==
    [appkitInstance |-> 0, initPromise |-> 0, onTokenCallback |-> FALSE, inits |-> <<>>,
     created |-> 0, received |-> {}, calls |-> 0, projectId |-> TRUE]

\* a resource node's autocomplete before any input
NoAutocomplete ==
    [main |-> TRUE, titleDraft |-> <<>>, title |-> <<>>, options |-> <<>>, open |-> FALSE,
     loading |-> FALSE, timer |-> <<>>, requests |-> <<>>, closing |-> FALSE,
     processed |-> <<>>, inputs |-> 0]

\* the flow server with nothing stored
NoFlows ==
    [stored |-> <<>>, creator |-> <<>>, putting |-> <<>>, response |-> [status |-> 0, id |-> ""],
     requests |-> 0]

serviceVars == <<appkit, autocomplete, flows>>

saveVars == <<contactEmail, contactPhone, storedEmail, authToken, currentFlowId, isSaving,
              pendingSave, saveError, saveStatus, fetching, modalOpen, saveClicks, serviceVars>>

vars == <<graphNodes, connections, scaling, panning, innerWidth, innerHeight, elements,
          suppressAutoArrange, timers, frames, dragging, draft, nextId, lastOp, lastPass,
          passCount, editCount, dragMoves, loaded, saveVars, given>>

\* the refs as setup() leaves them, nobody signed in
\* the save toolbar before any input
ToolbarIdle ==
    /\ contactEmail = <<>>
    /\ contactPhone = <<>>
    /\ storedEmail = <<>>
    /\ authToken = ""
    /\ currentFlowId = ""
    /\ isSaving = FALSE
    /\ pendingSave = FALSE
    /\ saveError = ""
    /\ saveStatus = ""
    /\ fetching = <<>>
    /\ modalOpen = FALSE
    /\ saveClicks = 0

SaveIdle ==
    /\ ToolbarIdle
    /\ appkit = NoAppKit
    /\ autocomplete = NoAutocomplete
    /\ flows = NoFlows

Px(n) == n * 100

NoNode == 0
NegInfinity == -1000000000

Max2(a, b) == IF a >= b THEN a ELSE b

\* The element of a one-element set.  Only({e : x \in {v}}) is e with x naming the value
\* of v, computed once: this is how a stage of the layout hands its result to the next.
Only(S) == CHOOSE x \in S : TRUE

RECURSIVE SeqSum(_)
SeqSum(s) == IF Len(s) = 0 THEN 0 ELSE s[1] + SeqSum(Tail(s))

RECURSIVE SeqMax(_, _)
SeqMax(s, start) == IF Len(s) = 0 THEN start ELSE SeqMax(Tail(s), Max2(start, s[1]))

Widths(sizes) == [i \in DOMAIN sizes |-> sizes[i].width]
Heights(sizes) == [i \in DOMAIN sizes |-> sizes[i].height]

(***************************************************************************)
(* Nodes and ports.                                                        *)
(***************************************************************************)
Port(key, location, fieldPath) ==
    [key |-> key, location |-> location, fieldPath |-> fieldPath]

PortRef(nodeId, io, key) == [node |-> nodeId, io |-> io, key |-> key]

\* this.addInput(key, intf) and this.addOutput(key, intf): the port is stored under its key
\* in the object of its side; a key the object has keeps its place and gets the new port
setPort(ports, port) ==
    IF \E i \in 1..Len(ports) : ports[i].key = port.key
    THEN [i \in 1..Len(ports) |-> IF ports[i].key = port.key THEN port ELSE ports[i]]
    ELSE Append(ports, port)

\* ProcessNode.addFlowInterface with the key makeKey returned: "output" goes to the
\* outputs with location right and "knowHow" to the outputs with location top, "input"
\* to the inputs with location left and "service" to the inputs with location bottom.
addFlowInterface(node, key, side, fieldPath) ==
    IF side \in {"output", "knowHow"}
    THEN [node EXCEPT !.outputs =
            setPort(@, Port(key, IF side = "output" THEN "right" ELSE "top", fieldPath))]
    ELSE [node EXCEPT !.inputs =
            setPort(@, Port(key, IF side = "input" THEN "left" ELSE "bottom", fieldPath))]

ProcessInitialPorts ==
    << <<"inputinstance_material", "input", "inputInstance.material">>,
       <<"inputinstance_quantity", "input", "inputInstance.quantity">>,
       <<"machineinstance_category", "service", "machineInstance.category">>,
       <<"machineinstance_quantity", "service", "machineInstance.quantity">>,
       <<"serviceinstance_gas", "service", "serviceInstance.gas">>,
       <<"serviceinstance_water", "service", "serviceInstance.water">>,
       <<"serviceinstance_service", "service", "serviceInstance.service">>,
       <<"serviceinstance_property", "service", "serviceInstance.property">>,
       <<"output_mainproduct", "output", "output.mainProduct">>,
       <<"output_byproduct", "output", "output.byproduct">> >>

RECURSIVE AddInitialPorts(_, _)
AddInitialPorts(node, k) ==
    IF k > Len(ProcessInitialPorts) THEN node
    ELSE AddInitialPorts(
            addFlowInterface(node, ProcessInitialPorts[k][1], ProcessInitialPorts[k][2],
                             ProcessInitialPorts[k][3]),
            k + 1)

\* new ProcessNode(): title "Manufacturing Step", ten ports, position (0, 0).
NewProcessNode(id) ==
    AddInitialPorts(
        [id |-> id, type |-> "ProcessNode", title |-> "Manufacturing Step",
         resourceType |-> "", fields |-> <<>>, inputs |-> <<>>, outputs |-> <<>>,
         position |-> [x |-> 0, y |-> 0]],
        1)

ResourceTypes == {"input", "output", "machine", "energy", "gas", "water", "service", "property"}

ResourceTitle(resourceType) ==
    CASE resourceType = "input" -> "Input Material"
      [] resourceType = "output" -> "Output Product"
      [] resourceType = "machine" -> "Machine"
      [] resourceType = "energy" -> "Energy Source"
      [] resourceType = "gas" -> "Gaz (m3)"
      [] resourceType = "water" -> "Viz (m3)"
      [] resourceType = "service" -> "Szolgaltatas"
      [] OTHER -> "Ingatlan"

ResourceOutputKey(resourceType) ==
    CASE resourceType = "input" -> "material"
      [] resourceType = "output" -> "output"
      [] resourceType = "machine" -> "machine_slot"
      [] resourceType = "energy" -> "energy"
      [] resourceType = "gas" -> "gas"
      [] resourceType = "water" -> "water"
      [] resourceType = "service" -> "service"
      [] OTHER -> "property"

\* The fields initInterfaces gives a resource of a kind: name and initial value, the
\* numbers written as text.
ResourceFields(resourceType) ==
    CASE resourceType = "input" ->
            << <<"origin", "">>, <<"inputQuantity", "0">>, <<"details", "">> >>
      [] resourceType = "output" -> << <<"outputKg", "1">>, <<"destination", "">> >>
      [] resourceType \in {"energy", "gas", "water"} -> << <<"quantity", "0">> >>
      [] OTHER -> << <<"duration", "">>, <<"parameters", "">> >>

\* A faulty variant of initInterfaces, which puts every output port on the right.
initInterfacesAllRight(node, resourceType) ==
    [node EXCEPT
        !.title = ResourceTitle(resourceType),
        !.fields = ResourceFields(resourceType),
        !.inputs = IF resourceType = "output" THEN <<Port("product", "left", "")>> ELSE <<>>,
        !.outputs = <<Port(ResourceOutputKey(resourceType), "right", "")>>]

\* ResourceNode.initInterfaces
initInterfaces(node, resourceType) ==
    [node EXCEPT
        !.title = ResourceTitle(resourceType),
        !.fields = ResourceFields(resourceType),
        !.inputs = IF resourceType = "output" THEN <<Port("product", "left", "")>> ELSE <<>>,
        !.outputs = <<Port(ResourceOutputKey(resourceType),
                           IF resourceType \in {"input", "output"} THEN "right" ELSE "top",
                           "")>>]

\* new ResourceNode(resourceType)
NewResourceNode(id, resourceType) ==
    initInterfaces(
        [id |-> id, type |-> "ResourceNode", title |-> "", resourceType |-> resourceType,
         fields |-> <<>>, inputs |-> <<>>, outputs |-> <<>>, position |-> [x |-> 0, y |-> 0]],
        resourceType)

Ids(nodes) == [i \in DOMAIN nodes |-> nodes[i].id]
IdSet(nodes) == {nodes[i].id : i \in DOMAIN nodes}

NodeOf(nodes, id) == nodes[CHOOSE i \in DOMAIN nodes : nodes[i].id = id]

Positions(nodes) == [id \in IdSet(nodes) |-> NodeOf(nodes, id).position]

\* given, after a handler that wrote positions: a node whose position it changed, or
\* that it created, has the new one
givenAfter(before, after) ==
    [id \in IdSet(after) |->
        IF id \in DOMAIN given /\ id \in IdSet(before)
              /\ NodeOf(after, id).position = NodeOf(before, id).position
        THEN given[id] ELSE NodeOf(after, id).position]

IsProcess(n) == n.type = "ProcessNode"
IsResource(n) == n.type = "ResourceNode"

(***************************************************************************)
(* The layout pass autoArrangeNodes.  g is what the pass reads: the graph, *)
(* the window and the DOM.  The pass returns g with new node positions.    *)
(***************************************************************************)
View(nodes) ==
    [nodes |-> nodes, connections |-> connections, scaling |-> scaling, panning |-> panning,
     innerWidth |-> innerWidth, innerHeight |-> innerHeight, elements |-> elements]

epsilon == 1

offsetFromProcess == 220
verticalGap == 30
mechanismGap == 40
processColumnGap == 40
offsetFromProcessPortrait == 180
mechanismGapPortrait == 90
rowGap == 20
columnGap == 20

ResourceFallback == [width |-> Px(200), height |-> Px(120)]
ProcessFallback == [width |-> Px(200), height |-> Px(180)]

\* getBoundingClientRect gives the element's natural size times the zoom.
getNodeSize(g, id, fallback) ==
    IF id \notin DOMAIN g.elements THEN fallback
    ELSE LET rect == [width |-> g.elements[id].width * g.scaling,
                      height |-> g.elements[id].height * g.scaling]
             scale == IF g.scaling = 0 THEN 1 ELSE g.scaling
         IN [width |-> rect.width \div scale, height |-> rect.height \div scale]

centerX(g) == g.innerWidth \div (2 * g.scaling) - g.panning.x
centerY(g) == g.innerHeight \div (2 * g.scaling) - g.panning.y

isPortrait(g) == g.innerHeight > g.innerWidth

\* A faulty variant of setPos, which also marks the title of the node it moves.
setPosRetitled(g, id, x, y) ==
    [g EXCEPT !.nodes = [i \in DOMAIN @ |->
        IF @[i].id = id
        THEN [@[i] EXCEPT !.position = [x |-> x, y |-> y], !.title = @ \o "*"]
        ELSE @[i]]]

setPos(g, id, x, y) ==
    [g EXCEPT !.nodes = [i \in DOMAIN @ |->
        IF @[i].id = id THEN [@[i] EXCEPT !.position = [x |-> x, y |-> y]] ELSE @[i]]]

RECURSIVE setPosEach(_, _, _, _, _)
setPosEach(g, items, xs, ys, k) ==
    IF k > Len(items) THEN g
    ELSE setPosEach(setPos(g, items[k], xs[k], ys[k]), items, xs, ys, k + 1)

processNodes(g) == Ids(SelectSeq(g.nodes, IsProcess))
resourceNodes(g) == Ids(SelectSeq(g.nodes, IsResource))

\* processNodes.find((node) => node.title === "Process") || processNodes[0]
mainProcess(g) ==
    LET procs == SelectSeq(g.nodes, IsProcess)
        titled == SelectSeq(procs, LAMBDA n : n.title = "Process")
    IN IF Len(titled) > 0 THEN titled[1].id
       ELSE IF Len(procs) > 0 THEN procs[1].id ELSE NoNode

resourcesOfType(g, wanted) ==
    Ids(SelectSeq(g.nodes, LAMBDA n : IsResource(n) /\ n.resourceType = wanted))

\* a classification that knows the machines only
mechanismNodesMachinesOnly(g) ==
    Ids(SelectSeq(g.nodes, LAMBDA n : IsResource(n) /\ n.resourceType = "machine"))

mechanismNodes(g) ==
    Ids(SelectSeq(g.nodes, LAMBDA n : IsResource(n) /\ n.resourceType \notin {"input", "output"}))

\* interfaceNodeMap.get(intf): the node of the graph that has this port, or undefined
interfaceNode(g, ref) ==
    LET owners == SelectSeq(g.nodes, LAMBDA n :
            /\ n.id = ref.node
            /\ \E i \in DOMAIN n[ref.io] : n[ref.io][i].key = ref.key)
    IN IF Len(owners) > 0 THEN owners[1].id ELSE NoNode

firstPort(node, io) ==
    IF Len(node[io]) > 0 THEN <<PortRef(node.id, io, node[io][1].key)>> ELSE <<>>

ownerOrMain(g, owner, main) ==
    IF owner # NoNode /\ IsProcess(NodeOf(g.nodes, owner)) THEN owner ELSE main

\* the owner of an input resource: across the first connection from its first output port
inputOwner(g, id, main) ==
    LET outputIntf == firstPort(NodeOf(g.nodes, id), "outputs")
        found == SelectSeq(g.connections, LAMBDA c : outputIntf = <<c.from>>)
        owner == IF Len(found) > 0 THEN interfaceNode(g, found[1].to) ELSE main
    IN ownerOrMain(g, owner, main)

\* the owner of an output resource: across the first connection to its first input port
outputOwner(g, id, main) ==
    LET inputIntf == firstPort(NodeOf(g.nodes, id), "inputs")
        found == SelectSeq(g.connections, LAMBDA c : inputIntf = <<c.to>>)
        owner == IF Len(found) > 0 THEN interfaceNode(g, found[1].from) ELSE main
    IN ownerOrMain(g, owner, main)

RECURSIVE Distinct(_)
Distinct(s) ==
    IF Len(s) = 0 THEN <<>>
    ELSE LET front == Distinct(SubSeq(s, 1, Len(s) - 1))
             last == s[Len(s)]
         IN IF \E i \in DOMAIN front : front[i] = last THEN front ELSE Append(front, last)

\* A Map<ProcessNode, ResourceNode[]>: its keys in insertion order and each key's items.
\* A resource without owner process (no main process) is in no group.
groupByOwner(items, owners) ==
    LET owned == SelectSeq([i \in DOMAIN items |-> [item |-> items[i], owner |-> owners[i]]],
                           LAMBDA e : e.owner # NoNode)
        keys == Distinct([i \in DOMAIN owned |-> owned[i].owner])
    IN [keys |-> keys,
        items |-> [k \in {keys[i] : i \in DOMAIN keys} |->
            LET mine == SelectSeq(owned, LAMBDA e : e.owner = k)
            IN [i \in DOMAIN mine |-> mine[i].item]]]

inputGroups(g, main) ==
    LET inputs == resourcesOfType(g, "input")
    IN groupByOwner(inputs, [i \in DOMAIN inputs |-> inputOwner(g, inputs[i], main)])

outputGroups(g, main) ==
    LET outputs == resourcesOfType(g, "output")
    IN groupByOwner(outputs, [i \in DOMAIN outputs |-> outputOwner(g, outputs[i], main)])

groupOf(groups, owner) ==
    IF owner \in DOMAIN groups.items THEN groups.items[owner] ELSE <<>>

\* A faulty variant of runningOffset, which forgets the gap between items.
RECURSIVE runningOffsetNoGap(_, _, _)
runningOffsetNoGap(extents, k, gap) ==
    IF k <= 1 THEN 0 ELSE runningOffsetNoGap(extents, k - 1, gap) + extents[k - 1]

\* the running offset of item k of a stack: each earlier item advanced it by its
\* extent plus the gap
RECURSIVE runningOffset(_, _, _)
runningOffset(extents, k, gap) ==
    IF k <= 1 THEN 0 ELSE runningOffset(extents, k - 1, gap) + extents[k - 1] + gap

totalExtent(extents, gap) == SeqSum(extents) + Max2(0, Len(extents) - 1) * gap

(***************************************************************************)
(* Landscape.                                                              *)
(***************************************************************************)
\* A faulty variant of placeMainProcess, which leaves the main process where it is.
placeMainProcessSkipped(g, main, lift) == g

placeMainProcess(g, main, lift) ==
    IF main = NoNode THEN g
    ELSE LET size == getNodeSize(g, main, ProcessFallback)
         IN setPos(g, main, centerX(g) - size.width \div 2,
                   centerY(g) - size.height \div 2 - lift)

processSize(g, main) ==
    IF main # NoNode THEN getNodeSize(g, main, ProcessFallback) ELSE ProcessFallback

processRight(g, main) == centerX(g) + processSize(g, main).width \div 2
processTop(g, main) == centerY(g) - processSize(g, main).height \div 2 - Px(40)
processBottom(g, main) == centerY(g) + processSize(g, main).height \div 2 - Px(40)

placeLeftOfProcess(g, main, processNode, items) ==
    IF Len(items) = 0 THEN [g |-> g, bottom |-> processTop(g, main)]
    ELSE LET processRect == getNodeSize(g, processNode, ProcessFallback)
             position == NodeOf(g.nodes, processNode).position
             processX == position.x + processRect.width \div 2
             processY == position.y + processRect.height \div 2
             sizes == [i \in DOMAIN items |-> getNodeSize(g, items[i], ResourceFallback)]
             totalHeight == totalExtent(Heights(sizes), Px(verticalGap))
             startY == processY - totalHeight \div 2
             xs == [i \in DOMAIN items |->
                      processX - processRect.width \div 2 - Px(offsetFromProcess) - sizes[i].width]
             ys == [i \in DOMAIN items |->
                      startY + runningOffset(Heights(sizes), i, Px(verticalGap))]
         IN [g |-> setPosEach(g, items, xs, ys, 1),
             bottom |-> ys[Len(items)] + sizes[Len(items)].height]

\* A faulty variant of placeRightOfProcess, which puts the outputs on the input side.
placeRightOnTheLeft(g, main, processNode, items) ==
    LET r == placeLeftOfProcess(g, main, processNode, items)
    IN [g |-> r.g, maxRight |-> processRight(g, main), bottom |-> r.bottom]

placeRightOfProcess(g, main, processNode, items) ==
    IF Len(items) = 0
    THEN [g |-> g, maxRight |-> processRight(g, main), bottom |-> processTop(g, main)]
    ELSE LET processRect == getNodeSize(g, processNode, ProcessFallback)
             position == NodeOf(g.nodes, processNode).position
             processX == position.x + processRect.width \div 2
             processY == position.y + processRect.height \div 2
             sizes == [i \in DOMAIN items |-> getNodeSize(g, items[i], ResourceFallback)]
             totalHeight == totalExtent(Heights(sizes), Px(verticalGap))
             startY == processY - totalHeight \div 2
             xs == [i \in DOMAIN items |->
                      processX + processRect.width \div 2 + Px(offsetFromProcess)]
             ys == [i \in DOMAIN items |->
                      startY + runningOffset(Heights(sizes), i, Px(verticalGap))]
         IN [g |-> setPosEach(g, items, xs, ys, 1),
             maxRight |-> SeqMax([i \in DOMAIN items |-> xs[i] + sizes[i].width], NegInfinity),
             bottom |-> ys[Len(items)] + sizes[Len(items)].height]

\* inputGroups.forEach: place each group, keep the lowest bottom
RECURSIVE placeInputGroups(_, _, _, _, _)
placeInputGroups(g, main, groups, k, inputsBottom) ==
    IF k > Len(groups.keys) THEN [g |-> g, inputsBottom |-> inputsBottom]
    ELSE Only({placeInputGroups(result.g, main, groups, k + 1,
                                Max2(inputsBottom, result.bottom)) :
                  result \in {placeLeftOfProcess(g, main, groups.keys[k],
                                                 groups.items[groups.keys[k]])}})

\* outputGroups.forEach
RECURSIVE placeOutputGroups(_, _, _, _, _, _)
placeOutputGroups(g, main, groups, k, outputColumnRight, outputsBottom) ==
    IF k > Len(groups.keys)
    THEN [g |-> g, outputColumnRight |-> outputColumnRight, outputsBottom |-> outputsBottom]
    ELSE Only({placeOutputGroups(result.g, main, groups, k + 1,
                                 Max2(outputColumnRight, result.maxRight),
                                 Max2(outputsBottom, result.bottom)) :
                  result \in {placeRightOfProcess(g, main, groups.keys[k],
                                                  groups.items[groups.keys[k]])}})

placeMechanismRow(g, main, inputsBottom, outputsBottom) ==
    LET mechanisms == mechanismNodes(g)
        mechSizes == [i \in DOMAIN mechanisms |-> getNodeSize(g, mechanisms[i], ResourceFallback)]
        totalMechWidth == totalExtent(Widths(mechSizes), Px(mechanismGap))
        startX == centerX(g) - totalMechWidth \div 2
        safeInputsBottom == IF inputsBottom # NegInfinity THEN inputsBottom
                            ELSE processBottom(g, main)
        safeOutputsBottom == IF outputsBottom # NegInfinity THEN outputsBottom ELSE inputsBottom
        bottomRowTarget == Max2(safeInputsBottom, safeOutputsBottom) + Px(10)
        bottomRowY == Max2(processBottom(g, main) + Px(20), bottomRowTarget)
    IN setPosEach(g, mechanisms,
                  [i \in DOMAIN mechanisms |->
                      startX + runningOffset(Widths(mechSizes), i, Px(mechanismGap))],
                  [i \in DOMAIN mechanisms |-> bottomRowY], 1)

secondaryProcesses(g, main) == SelectSeq(processNodes(g), LAMBDA id : id # main)

\* the column without the gap between the processes
placeSecondaryColumnNoGap(g, main, outputColumnRight) ==
    LET secondary == secondaryProcesses(g, main)
        columnCenterX == Max2(outputColumnRight + Px(220), centerX(g) + Px(520))
        sizes == [i \in DOMAIN secondary |-> getNodeSize(g, secondary[i], ProcessFallback)]
        totalHeight == totalExtent(Heights(sizes), 0)
        startY == centerY(g) - totalHeight \div 2 - Px(40)
    IN setPosEach(g, secondary,
                  [i \in DOMAIN secondary |-> columnCenterX - sizes[i].width \div 2],
                  [i \in DOMAIN secondary |->
                      startY + runningOffset(Heights(sizes), i, 0)], 1)

placeSecondaryColumn(g, main, outputColumnRight) ==
    LET secondary == secondaryProcesses(g, main)
        columnCenterX == Max2(outputColumnRight + Px(220), centerX(g) + Px(520))
        sizes == [i \in DOMAIN secondary |-> getNodeSize(g, secondary[i], ProcessFallback)]
        totalHeight == totalExtent(Heights(sizes), Px(processColumnGap))
        startY == centerY(g) - totalHeight \div 2 - Px(40)
    IN setPosEach(g, secondary,
                  [i \in DOMAIN secondary |-> columnCenterX - sizes[i].width \div 2],
                  [i \in DOMAIN secondary |->
                      startY + runningOffset(Heights(sizes), i, Px(processColumnGap))], 1)

\* the stages of the landscape branch, the last one first
landscapeSecondary(g4, main, r3) == placeSecondaryColumn(g4, main, r3.outputColumnRight)

landscapeMechanisms(main, r2, r3) ==
    Only({landscapeSecondary(g4, main, r3) :
            g4 \in {placeMechanismRow(r3.g, main, r2.inputsBottom, r3.outputsBottom)}})

landscapeOutputs(g1, main, r2) ==
    Only({landscapeMechanisms(main, r2, r3) :
            r3 \in {placeOutputGroups(r2.g, main, outputGroups(r2.g, main), 1,
                                      processRight(g1, main), NegInfinity)}})

landscapeInputs(g1, main) ==
    Only({landscapeOutputs(g1, main, r2) :
            r2 \in {placeInputGroups(g1, main, inputGroups(g1, main), 1, NegInfinity)}})

arrangeLandscape(g) ==
    Only({landscapeInputs(g1, main) :
            main \in {mainProcess(g)}, g1 \in {placeMainProcess(g, mainProcess(g), Px(40))}})

(***************************************************************************)
(* Portrait.                                                               *)
(***************************************************************************)
\* A faulty variant of getRowMetrics, whose total width leaves out the gaps.
getRowMetricsNoGap(g, items, fallback) ==
    LET sizes == [i \in DOMAIN items |-> getNodeSize(g, items[i], fallback)]
    IN [sizes |-> sizes,
        totalWidth |-> SeqSum(Widths(sizes)),
        maxHeight |-> SeqMax(Heights(sizes), 0)]

getRowMetrics(g, items, fallback) ==
    LET sizes == [i \in DOMAIN items |-> getNodeSize(g, items[i], fallback)]
    IN [sizes |-> sizes,
        totalWidth |-> totalExtent(Widths(sizes), Px(rowGap)),
        maxHeight |-> SeqMax(Heights(sizes), 0)]

placeRowFromMetrics(g, items, metrics, centerXPos, y) ==
    IF Len(items) = 0 THEN g
    ELSE LET startX == centerXPos - metrics.totalWidth \div 2
         IN setPosEach(g, items,
                       [i \in DOMAIN items |->
                           startX + runningOffset(Widths(metrics.sizes), i, Px(rowGap))],
                       [i \in DOMAIN items |-> y], 1)

placeColumnRight(g, items, x, centerYPos) ==
    IF Len(items) = 0 THEN g
    ELSE LET sizes == [i \in DOMAIN items |-> getNodeSize(g, items[i], ResourceFallback)]
             totalHeight == totalExtent(Heights(sizes), Px(columnGap))
             startY == centerYPos - totalHeight \div 2
         IN setPosEach(g, items,
                       [i \in DOMAIN items |-> x],
                       [i \in DOMAIN items |->
                           startY + runningOffset(Heights(sizes), i, Px(columnGap))], 1)

\* the centre of the main process as the portrait branch reads it after placing it
portraitProcessX(g, main) ==
    IF main # NoNode
    THEN NodeOf(g.nodes, main).position.x + processSize(g, main).width \div 2
    ELSE centerX(g)

portraitProcessY(g, main) ==
    IF main # NoNode
    THEN NodeOf(g.nodes, main).position.y + processSize(g, main).height \div 2
    ELSE centerY(g)

\* the body of secondaryProcesses.forEach: the output row below the process, then the
\* input row above it
placeProcessRows(g, processNode, inGroups, outGroups) ==
    LET procSize == getNodeSize(g, processNode, ProcessFallback)
        position == NodeOf(g.nodes, processNode).position
        procX == position.x + procSize.width \div 2
        procY == position.y + procSize.height \div 2
        procOutputs == groupOf(outGroups, processNode)
        procOutputsMetrics == getRowMetrics(g, procOutputs, ResourceFallback)
        procOutputY == procY + procSize.height \div 2 + Px(offsetFromProcessPortrait)
        procInputs == groupOf(inGroups, processNode)
    IN Only({Only({placeRowFromMetrics(g1, procInputs, procInputsMetrics, procX,
                                       procY - procSize.height \div 2
                                       - Px(offsetFromProcessPortrait)
                                       - procInputsMetrics.maxHeight) :
                     procInputsMetrics \in {getRowMetrics(g1, procInputs, ResourceFallback)}}) :
               g1 \in {placeRowFromMetrics(g, procOutputs, procOutputsMetrics, procX,
                                           procOutputY)}})

\* secondaryProcesses.forEach
RECURSIVE placeSecondaryRows(_, _, _, _, _)
placeSecondaryRows(g, secondary, inGroups, outGroups, k) ==
    IF k > Len(secondary) THEN g
    ELSE Only({placeSecondaryRows(g2, secondary, inGroups, outGroups, k + 1) :
                  g2 \in {placeProcessRows(g, secondary[k], inGroups, outGroups)}})

\* the row of secondary processes without the room for their input rows
placeSecondaryProcessesPortraitNoRoom(g, main, inGroups, outGroups, processX, outputsBottom) ==
    LET secondary == secondaryProcesses(g, main)
    IN IF Len(secondary) = 0 THEN g
       ELSE LET secondaryRowY == outputsBottom + Px(offsetFromProcessPortrait) + Px(40)
                secondaryMetrics == getRowMetrics(g, secondary, ProcessFallback)
            IN Only({placeSecondaryRows(g1, secondary, inGroups, outGroups, 1) :
                       g1 \in {placeRowFromMetrics(g, secondary, secondaryMetrics, processX,
                                                   secondaryRowY)}})

placeSecondaryProcessesPortrait(g, main, inGroups, outGroups, processX, outputsBottom) ==
    LET secondary == secondaryProcesses(g, main)
    IN IF Len(secondary) = 0 THEN g
       ELSE LET secondaryInputsMax ==
                    SeqMax([i \in DOMAIN secondary |->
                               getRowMetrics(g, groupOf(inGroups, secondary[i]),
                                             ResourceFallback).maxHeight], 0)
                secondaryRowY == outputsBottom + Px(offsetFromProcessPortrait)
                                 + secondaryInputsMax + Px(40)
                secondaryMetrics == getRowMetrics(g, secondary, ProcessFallback)
            IN Only({placeSecondaryRows(g1, secondary, inGroups, outGroups, 1) :
                       g1 \in {placeRowFromMetrics(g, secondary, secondaryMetrics, processX,
                                                   secondaryRowY)}})

\* the stages of the portrait branch, the last one first; p holds what the branch
\* reads once: the main process, its rectangle and centre, and the two groupings
portraitMechanisms(g4, p, inputMetrics, outputMetrics) ==
    LET maxRowRight == Max2(Max2(p.processX + inputMetrics.totalWidth \div 2,
                                 p.processX + outputMetrics.totalWidth \div 2),
                            p.processX + p.processRect.width \div 2)
        mechanismX == maxRowRight + Px(mechanismGapPortrait)
    IN placeColumnRight(g4, mechanismNodes(g4), mechanismX, p.processY)

portraitSecondary(g3, p, inputMetrics, outputMetrics, outputRowY) ==
    Only({portraitMechanisms(g4, p, inputMetrics, outputMetrics) :
            g4 \in {placeSecondaryProcessesPortrait(g3, p.main, p.inGroups, p.outGroups,
                                                    p.processX,
                                                    outputRowY + outputMetrics.maxHeight)}})

portraitOutputRow(g2, p, inputMetrics) ==
    LET outputGroup == IF p.main # NoNode THEN groupOf(p.outGroups, p.main) ELSE <<>>
        outputRowY == p.processY + p.processRect.height \div 2
                      + Px(offsetFromProcessPortrait)
    IN Only({Only({portraitSecondary(g3, p, inputMetrics, outputMetrics, outputRowY) :
                     g3 \in {placeRowFromMetrics(g2, outputGroup, outputMetrics,
                                                 p.processX, outputRowY)}}) :
               outputMetrics \in {getRowMetrics(g2, outputGroup, ResourceFallback)}})

portraitInputRow(g1, p) ==
    LET inputGroup == IF p.main # NoNode THEN groupOf(p.inGroups, p.main) ELSE <<>>
    IN Only({Only({portraitOutputRow(g2, p, inputMetrics) :
                     g2 \in {placeRowFromMetrics(g1, inputGroup, inputMetrics, p.processX,
                                                 p.processY - p.processRect.height \div 2
                                                 - Px(offsetFromProcessPortrait)
                                                 - inputMetrics.maxHeight)}}) :
               inputMetrics \in {getRowMetrics(g1, inputGroup, ResourceFallback)}})

portraitProcess(g1, main) ==
    Only({portraitInputRow(g1, p) :
            p \in {[main |-> main,
                    inGroups |-> inputGroups(g1, main),
                    outGroups |-> outputGroups(g1, main),
                    processRect |-> processSize(g1, main),
                    processX |-> portraitProcessX(g1, main),
                    processY |-> portraitProcessY(g1, main)]}})

arrangePortrait(g) ==
    Only({portraitProcess(g1, main) :
            main \in {mainProcess(g)}, g1 \in {placeMainProcess(g, mainProcess(g), Px(20))}})

\* autoArrangeNodes, without the connection refresh it ends with
arrange(g) ==
    IF Len(g.nodes) = 0 THEN g
    ELSE IF isPortrait(g) THEN arrangePortrait(g) ELSE arrangeLandscape(g)

(***************************************************************************)
(* Structural operations on the graph.                                     *)
(***************************************************************************)
\* A faulty variant of addConnection, which adds whatever it is asked for.
addConnectionUnchecked(conns, from, to) == Append(conns, [from |-> from, to |-> to])

\* graph.addConnection(from, to): refused between ports of one node and for a pair that
\* is already connected; an input port keeps one connection, the new one.
addConnection(conns, from, to) ==
    IF from.node = to.node \/ \E i \in DOMAIN conns : conns[i].from = from /\ conns[i].to = to
    THEN conns
    ELSE Append(SelectSeq(conns, LAMBDA c : c.to # to), [from |-> from, to |-> to])

\* A faulty variant of removeNode, which leaves the node's connections in the graph.
removeNodeKeepingConnections(g, id) ==
    [g EXCEPT !.nodes = SelectSeq(@, LAMBDA n : n.id # id)]

\* graph.removeNode(node): the node goes, and every connection at one of its ports
removeNode(g, id) ==
    [g EXCEPT !.nodes = SelectSeq(@, LAMBDA n : n.id # id),
              !.connections = SelectSeq(@, LAMBDA c : c.from.node # id /\ c.to.node # id)]

setTitle(nodes, id, title) ==
    [i \in DOMAIN nodes |-> IF nodes[i].id = id THEN [nodes[i] EXCEPT !.title = title] ELSE nodes[i]]

replaceNode(nodes, node) ==
    [i \in DOMAIN nodes |-> IF nodes[i].id = node.id THEN node ELSE nodes[i]]

portsAt(node, io, location) == SelectSeq(node[io], LAMBDA p : p.location = location)

\* the key makeKey gives the n-th port of a side added after construction
addedPortKey(side, n) ==
    CASE side = "input" -> "input_material_input_" \o ToString(n)
      [] side = "output" -> "output_product_output_" \o ToString(n)
      [] OTHER -> "service_service_szolg_ltat_s_" \o ToString(n)

\* A faulty variant of addPortWithResource, which leaves the new resource unconnected.
addPortWithResourceUnlinked(g, processId, side, resourceId) ==
    LET process == NodeOf(g.nodes, processId)
        location == CASE side = "input" -> "left" [] side = "output" -> "right" [] OTHER -> "bottom"
        io == IF side = "output" THEN "outputs" ELSE "inputs"
        nextIndex == Len(portsAt(process, io, location)) + 1
        grown == addFlowInterface(process, addedPortKey(side, nextIndex), side, "")
        resourceType == CASE side = "input" -> "input" [] side = "output" -> "output"
                          [] OTHER -> "service"
    IN [g EXCEPT !.nodes = Append(replaceNode(g.nodes, grown),
                                  NewResourceNode(resourceId, resourceType))]

\* The structural part of addInputPort / addOutputPort / addMechanismPort: a new resource
\* node, a new port on the process, and the connection between the two.
addPortWithResource(g, processId, side, resourceId) ==
    LET process == NodeOf(g.nodes, processId)
        location == CASE side = "input" -> "left" [] side = "output" -> "right" [] OTHER -> "bottom"
        io == IF side = "output" THEN "outputs" ELSE "inputs"
        nextIndex == Len(portsAt(process, io, location)) + 1
        resourceType == CASE side = "input" -> "input" [] side = "output" -> "output"
                          [] OTHER -> "service"
        title == CASE side = "input" -> "Input " \o ToString(nextIndex)
                   [] side = "output" -> "Output " \o ToString(nextIndex)
                   [] OTHER -> "Szolgaltatas " \o ToString(nextIndex)
        resource == [NewResourceNode(resourceId, resourceType) EXCEPT !.title = title]
        key == addedPortKey(side, nextIndex)
        grown == addFlowInterface(process, key, side, "")
        processPort == PortRef(processId, io, key)
        nodes == Append(replaceNode(g.nodes, grown), resource)
    IN [g EXCEPT
          !.nodes = nodes,
          !.connections =
              IF side = "output"
              THEN addConnection(@, processPort, PortRef(resourceId, "inputs", resource.inputs[1].key))
              ELSE addConnection(@, PortRef(resourceId, "outputs", resource.outputs[1].key), processPort)]

(***************************************************************************)
(* The connection refresh and the animation frames.                        *)
(***************************************************************************)
\* refreshConnectionCoords(): nothing for an empty graph, else one animation-frame
\* callback that nudges every node by +epsilon
refreshConnectionCoords(nodes, pending) ==
    IF Len(nodes) = 0 THEN pending ELSE Append(pending, "nudgeUp")

nudge(nodes, delta) ==
    [i \in DOMAIN nodes |->
        [nodes[i] EXCEPT !.position = [x |-> @.x + delta, y |-> @.y + delta]]]

\* One animation frame runs the callbacks that were pending when it began, in order;
\* what they request runs in the next frame.
RECURSIVE runCallbacks(_, _, _, _)
runCallbacks(nodes, callbacks, k, requested) ==
    IF k > Len(callbacks) THEN [nodes |-> nodes, frames |-> requested]
    ELSE CASE callbacks[k] = "nudgeUp" ->
                runCallbacks(nudge(nodes, epsilon), callbacks, k + 1,
                             Append(requested, "nudgeDown"))
           [] callbacks[k] = "nudgeDown" ->
                runCallbacks(nudge(nodes, 0 - epsilon), callbacks, k + 1,
                             Append(requested, "updateConnectionArrows"))
           [] OTHER -> runCallbacks(nodes, callbacks, k + 1, requested)

\* autoArrangeNodes(): the pass, then the connection refresh it ends with
autoArrangeNodes(g, pending) ==
    [nodes |-> arrange(g).nodes,
     frames |-> refreshConnectionCoords(g.nodes, pending),
     pass |-> [ran |-> Len(g.nodes) > 0,
               portrait |-> isPortrait(g),
               main |-> mainProcess(g),
               inputGroups |-> inputGroups(g, mainProcess(g)),
               outputGroups |-> outputGroups(g, mainProcess(g))]]

NoLoad == [on |-> FALSE, positions |-> <<>>, states |-> <<>>]

NoGroups == groupByOwner(<<>>, <<>>)
NoPass == [ran |-> FALSE, portrait |-> FALSE, main |-> NoNode,
           inputGroups |-> NoGroups, outputGroups |-> NoGroups]

(***************************************************************************)
(* Bounded inputs: diagrams, rendered sizes, viewports, zoom and pan.      *)
(***************************************************************************)
MaxResources == 2
MaxInputs == 2
MaxOutputs == 2
MaxMechanisms == 1
MaxPasses == 2

Viewports == {[w |-> 1600, h |-> 900], [w |-> 900, h |-> 900], [w |-> 700, h |-> 1200],
              [w |-> 900, h |-> 940], [w |-> 1280, h |-> 900]}

ZoomPans == {[scaling |-> 1, panning |-> [x |-> 0, y |-> 0]],
             [scaling |-> 2, panning |-> [x |-> Px(100), y |-> Px(0 - 50)]]}

ProcessTitleLists ==
    {<<>>, <<"Process">>, <<"Manufacturing Step", "Process">>,
     <<"Manufacturing Step", "Folyamat">>}

\* A resource of a drawn diagram: its kind, the process it is attached to through the
\* port the add-port operations connect (0: none), and the process its own output
\* port feeds (0: none; output resources only, as addProcessFromOutput connects it).
ResourceSpecs(np) ==
    {[kind |-> "input", owner |-> o, next |-> 0] : o \in 0 .. np}
    \cup {r \in [kind : {"output"}, owner : 0 .. np, next : 0 .. np] :
            r.next = 0 \/ r.next # r.owner}
    \cup {[kind |-> "mechanism", owner |-> o, next |-> 0] : o \in 0 .. (IF np > 0 THEN 1 ELSE 0)}

SpecRank(r) ==
    (CASE r.kind = "input" -> 0 [] r.kind = "output" -> 100 [] OTHER -> 200)
    + 10 * r.owner + r.next

\* resource lists up to reordering
ResourceLists(np) ==
    UNION {{l \in [1 .. n -> ResourceSpecs(np)] :
              \A i \in 1 .. n - 1 : SpecRank(l[i]) <= SpecRank(l[i + 1])} : n \in 0 .. MaxResources}

RECURSIVE AddProcesses(_, _, _)
AddProcesses(g, titles, k) ==
    IF k > Len(titles) THEN g
    ELSE AddProcesses([g EXCEPT !.nodes = Append(@, [NewProcessNode(k) EXCEPT !.title = titles[k]])],
                      titles, k + 1)

AddResource(g, r, id) ==
    LET g1 == IF r.owner = 0
              THEN [g EXCEPT !.nodes = Append(@, NewResourceNode(id,
                        IF r.kind = "mechanism" THEN "machine" ELSE r.kind))]
              ELSE addPortWithResource(g, r.owner,
                        IF r.kind = "mechanism" THEN "service" ELSE r.kind, id)
    IN IF r.next = 0 THEN g1
       ELSE [g1 EXCEPT !.connections =
                addConnection(@, PortRef(id, "outputs", "output"),
                              PortRef(r.next, "inputs", "inputinstance_material"))]

RECURSIVE AddResources(_, _, _, _)
AddResources(g, list, k, id) ==
    IF k > Len(list) THEN g
    ELSE AddResources(AddResource(g, list[k], id), list, k + 1, id + 1)

EmptyGraph == [nodes |-> <<>>, connections |-> <<>>]

Diagram(titles, list) ==
    AddResources(AddProcesses(EmptyGraph, titles, 1), list, 1, Len(titles) + 1)

ScenarioList(nIn, nOut, nMech) ==
    [i \in 1 .. nIn |-> [kind |-> "input", owner |-> 1, next |-> 0]]
    \o [i \in 1 .. nOut |-> [kind |-> "output", owner |-> 1, next |-> 0]]
    \o [i \in 1 .. nMech |-> [kind |-> "mechanism", owner |-> 1, next |-> 0]]

Diagrams ==
    UNION {{Diagram(t, l) : l \in ResourceLists(Len(t))} : t \in ProcessTitleLists}
    \cup {Diagram(<<"Process">>, ScenarioList(i, o, m)) :
            i \in 0 .. MaxInputs, o \in 0 .. MaxOutputs, m \in 0 .. MaxMechanisms}

\* Rendered sizes: by node id and seed a node is not yet in the DOM (the pass falls
\* back to the default size), or has the smaller or the larger of two sizes.
RenderedSize(node, class) ==
    IF IsProcess(node)
    THEN (IF class = 1 THEN [width |-> Px(180), height |-> Px(160)]
          ELSE [width |-> Px(240), height |-> Px(220)])
    ELSE (IF class = 1 THEN [width |-> Px(140), height |-> Px(100)]
          ELSE [width |-> Px(260), height |-> Px(160)])

SizeSeeds == 0 .. 2

Rendered(nodes, seed) ==
    [id \in {n \in IdSet(nodes) : (n + seed) % 3 # 0} |->
        RenderedSize(NodeOf(nodes, id), (id + seed) % 3)]

(***************************************************************************)
(* The layout engine on drawn diagrams: layout passes run back to back.    *)
(***************************************************************************)
\* Starting positions: scattered, as drags leave them.
Scattered(nodes) ==
    [i \in DOMAIN nodes |->
        [nodes[i] EXCEPT !.position = [x |-> Px(130 * i), y |-> Px(0 - 70 * i)]]]

InitLayout ==
    \E d \in Diagrams, v \in Viewports, z \in ZoomPans, seed \in SizeSeeds :
        /\ graphNodes = Scattered(d.nodes)
        /\ connections = d.connections
        /\ scaling = z.scaling
        /\ panning = z.panning
        /\ innerWidth = Px(v.w)
        /\ innerHeight = Px(v.h)
        /\ elements = Rendered(d.nodes, seed)
        /\ suppressAutoArrange = FALSE
        /\ timers = <<>>
        /\ frames = <<>>
        /\ dragging = NoNode
        /\ draft = <<>>
        /\ nextId = Len(d.nodes) + 1
        /\ lastOp = "init"
        /\ lastPass = NoPass
        /\ passCount = 0
        /\ editCount = 0
        /\ dragMoves = 0
        /\ loaded = NoLoad
        /\ given = Positions(graphNodes)
        /\ SaveIdle

\* a scheduled callback () => autoArrangeNodes() runs
RunLayoutPass ==
    /\ passCount < MaxPasses
    /\ \E r \in {autoArrangeNodes(View(graphNodes), frames)} :
          /\ graphNodes' = r.nodes
          /\ frames' = r.frames
          /\ lastPass' = r.pass
    /\ passCount' = passCount + 1
    /\ lastOp' = "autoArrangeNodes"
    /\ UNCHANGED <<connections, scaling, panning, innerWidth, innerHeight, elements,
                   suppressAutoArrange, timers, dragging, draft, nextId, editCount,
                   dragMoves, loaded,
                   saveVars>>
    /\ given' = givenAfter(graphNodes, graphNodes')

\* the browser runs the pending requestAnimationFrame callbacks
AnimationFrame ==
    /\ Len(frames) > 0
    /\ \E r \in {runCallbacks(graphNodes, frames, 1, <<>>)} :
          /\ graphNodes' = r.nodes
          /\ frames' = r.frames
    /\ lastOp' = "animationFrame"
    /\ UNCHANGED <<connections, scaling, panning, innerWidth, innerHeight, elements,
                   suppressAutoArrange, timers, dragging, draft, nextId, lastPass,
                   passCount, editCount, dragMoves, loaded,
                   saveVars, given>>

NextLayout == RunLayoutPass

SpecLayout == InitLayout /\ [][NextLayout]_vars

(***************************************************************************)
(* The editor: the mounted demo diagram, structural edits, the change      *)
(* watcher's timers, animation frames, drags, drafts and payload loading.  *)
(* Time advances in ticks of 50 ms; a timer is [left, cb], left in ticks.  *)
(***************************************************************************)
MaxEdits == 1
MaxDragMoves == 1

EditorViewports == {[w |-> 1600, h |-> 900], [w |-> 700, h |-> 1200]}

\* the nodes a run adds ports to, drags or deletes: the two demo processes (9 has
\* connections on every side, 10 a single input) and node 13, the first one added
ProcessTargets == {9, 10, 13}
DragTargets == {9}
DeleteTargets == {2, 9, 10}

\* window.setTimeout(cb, 50 * ticks): runs after the timers that are due no later
\* a debouncing variant: scheduling a callback drops its pending timers
setTimeoutDebounced(pending, cb, ticks) ==
    LET kept == SelectSeq(pending, LAMBDA t : t.cb # cb)
        before == SelectSeq(kept, LAMBDA t : t.left <= ticks)
        after == SelectSeq(kept, LAMBDA t : t.left > ticks)
    IN before \o <<[left |-> ticks, cb |-> cb]>> \o after

setTimeout(pending, cb, ticks) ==
    LET before == SelectSeq(pending, LAMBDA t : t.left <= ticks)
        after == SelectSeq(pending, LAMBDA t : t.left > ticks)
    IN before \o <<[left |-> ticks, cb |-> cb]>> \o after

\* A faulty variant of watch, which schedules whatever the suppress flag says.
watchUnsuppressed(pending, suppress) ==
    setTimeout(setTimeout(pending, "autoArrangeNodes", 1), "refreshConnectionCoords", 2)

\* The watcher on [nodes.length, connections.length]: its callback runs once in the
\* flush after a handler that added or removed nodes or connections.
watch(pending, suppress) ==
    IF suppress THEN pending
    ELSE setTimeout(setTimeout(pending, "autoArrangeNodes", 1), "refreshConnectionCoords", 2)

\* After a handler Vue renders: every node of the graph has its element. An element's
\* natural size depends on the node (two sizes per node type).
renderAll(nodes) ==
    [id \in IdSet(nodes) |-> RenderedSize(NodeOf(nodes, id), 1 + (id % 2))]

findInputByField(node, fieldPath) ==
    LET found == SelectSeq(node.inputs, LAMBDA port : port.fieldPath = fieldPath)
    IN PortRef(node.id, "inputs", found[1].key)

findOutputByField(node, fieldPath) ==
    LET found == SelectSeq(node.outputs, LAMBDA port : port.fieldPath = fieldPath)
    IN PortRef(node.id, "outputs", found[1].key)

firstOutput(node) == PortRef(node.id, "outputs", node.outputs[1].key)
firstInput(node) == PortRef(node.id, "inputs", node.inputs[1].key)

RECURSIVE addConnections(_, _, _)
addConnections(conns, pairs, k) ==
    IF k > Len(pairs) THEN conns
    ELSE addConnections(addConnection(conns, pairs[k][1], pairs[k][2]), pairs, k + 1)

\* "a || b" on values that can be undefined: <<>> is undefined, <<n>> is the node n
orElse(a, b) == IF Len(a) > 0 THEN a ELSE b

\* list[k - 1], undefined past the end
itemAt(list, k) == IF k <= Len(list) THEN <<list[k]>> ELSE <<>>

findResource(resources, title, type) ==
    itemAt(SelectSeq(resources, LAMBDA n : n.resourceType = type /\ n.title = title), 1)

hasConnection(conns, from, to) ==
    \E i \in DOMAIN conns : conns[i].from = from /\ conns[i].to = to

\* "if (from && to && !hasConnection(from, to)) graph.addConnection(from, to)", in turn
RECURSIVE connectMissing(_, _, _)
connectMissing(conns, pairs, k) ==
    IF k > Len(pairs) THEN conns
    ELSE connectMissing(IF hasConnection(conns, pairs[k][1], pairs[k][2]) THEN conns
                        ELSE addConnection(conns, pairs[k][1], pairs[k][2]),
                        pairs, k + 1)

\* ensureDemoConnections(): wires a graph that has nodes and no connection the way the
\* demo is wired; wired tells whether it got that far
ensureDemoConnections(g) ==
    LET processes == SelectSeq(g.nodes, IsProcess)
        process == orElse(itemAt(SelectSeq(processes, LAMBDA n : n.title = "Process"), 1),
                          itemAt(processes, 1))
        wasteProcess == itemAt(SelectSeq(processes, LAMBDA n : n.title = "Hulladekkezeles"), 1)
        resources == SelectSeq(g.nodes, IsResource)
        typed(type) == SelectSeq(resources, LAMBDA n : n.resourceType = type)
        input1 == orElse(findResource(resources, "Steel Sheet", "input"), itemAt(typed("input"), 1))
        input2 == orElse(orElse(findResource(resources, "Paint", "input"), itemAt(typed("input"), 2)),
                         itemAt(typed("input"), 1))
        machine == orElse(findResource(resources, "Press Machine", "machine"),
                          itemAt(typed("machine"), 1))
        energy == orElse(findResource(resources, "Electricity", "energy"), itemAt(typed("energy"), 1))
        gas == orElse(findResource(resources, "Gaz (m3)", "gas"), itemAt(typed("gas"), 1))
        water == orElse(findResource(resources, "Viz (m3)", "water"), itemAt(typed("water"), 1))
        service == orElse(findResource(resources, "Szolgaltatas", "service"),
                          itemAt(typed("service"), 1))
        property == orElse(findResource(resources, "Ingatlan", "property"),
                           itemAt(typed("property"), 1))
        output1 == orElse(findResource(resources, "Car Door", "output"), itemAt(typed("output"), 1))
        output2 == orElse(orElse(findResource(resources, "Scrap Metal", "output"),
                                 itemAt(typed("output"), 2)),
                          itemAt(typed("output"), 1))
        found == <<input1, input2, machine, energy, gas, water, service, property, output1,
                   output2>>
        p == process[1]
        pairs ==
            << <<firstOutput(input1[1]), findInputByField(p, "inputInstance.material")>>,
               <<firstOutput(input2[1]), findInputByField(p, "inputInstance.quantity")>>,
               <<firstOutput(machine[1]), findInputByField(p, "machineInstance.category")>>,
               <<firstOutput(energy[1]), findInputByField(p, "machineInstance.quantity")>>,
               <<firstOutput(gas[1]), findInputByField(p, "serviceInstance.gas")>>,
               <<firstOutput(water[1]), findInputByField(p, "serviceInstance.water")>>,
               <<firstOutput(service[1]), findInputByField(p, "serviceInstance.service")>>,
               <<firstOutput(property[1]), findInputByField(p, "serviceInstance.property")>>,
               <<findOutputByField(p, "output.mainProduct"), firstInput(output1[1])>>,
               <<findOutputByField(p, "output.byproduct"), firstInput(output2[1])>> >>
        waste ==
            IF Len(wasteProcess) > 0
            THEN << <<firstOutput(output2[1]),
                      findInputByField(wasteProcess[1], "inputInstance.material")>> >>
            ELSE <<>>
    IN IF \/ Len(g.connections) > 0
          \/ Len(process) = 0
          \/ Len(resources) = 0
          \/ \E i \in DOMAIN found : Len(found[i]) = 0
       THEN [wired |-> FALSE, connections |-> g.connections]
       ELSE [wired |-> TRUE, connections |-> connectMissing(g.connections, pairs \o waste, 1)]

\* onMounted, empty graph: the demo diagram
DemoNodes ==
    <<[NewResourceNode(1, "input") EXCEPT !.title = "Fo osszetevo"],
      [NewResourceNode(2, "input") EXCEPT !.title = "Csomagolas"],
      [NewResourceNode(3, "machine") EXCEPT !.title = "Gephasznalat"],
      [NewResourceNode(4, "energy") EXCEPT !.title = "Villany (kWh)"],
      [NewResourceNode(5, "gas") EXCEPT !.title = "Gaz (m3)"],
      [NewResourceNode(6, "water") EXCEPT !.title = "Viz (m3)"],
      [NewResourceNode(7, "service") EXCEPT !.title = "Szolgaltatas"],
      [NewResourceNode(8, "property") EXCEPT !.title = "Ingatlan"],
      [NewProcessNode(9) EXCEPT !.title = "Folyamat"],
      [NewProcessNode(10) EXCEPT !.title = "Hulladekkezeles"],
      [NewResourceNode(11, "output") EXCEPT !.title = "Fotermek"],
      [NewResourceNode(12, "output") EXCEPT !.title = "Mellektermek"]>>

DemoConnections ==
    LET n == DemoNodes
    IN addConnections(<<>>,
        << <<firstOutput(n[1]), findInputByField(n[9], "inputInstance.material")>>,
           <<firstOutput(n[2]), findInputByField(n[9], "inputInstance.quantity")>>,
           <<firstOutput(n[3]), findInputByField(n[9], "machineInstance.category")>>,
           <<firstOutput(n[4]), findInputByField(n[9], "machineInstance.quantity")>>,
           <<firstOutput(n[5]), findInputByField(n[9], "serviceInstance.gas")>>,
           <<firstOutput(n[6]), findInputByField(n[9], "serviceInstance.water")>>,
           <<firstOutput(n[7]), findInputByField(n[9], "serviceInstance.service")>>,
           <<firstOutput(n[8]), findInputByField(n[9], "serviceInstance.property")>>,
           <<findOutputByField(n[9], "output.mainProduct"), firstInput(n[11])>>,
           <<findOutputByField(n[9], "output.byproduct"), firstInput(n[12])>>,
           <<firstOutput(n[12]), findInputByField(n[10], "inputInstance.material")>> >>, 1)

\* The timers onMounted leaves (its own and the watcher's) run three layout passes on
\* the rendered demo diagram, and refreshes whose nudges cancel.
Mounted(v) ==
    LET g == [nodes |-> DemoNodes, connections |-> DemoConnections, scaling |-> 1,
              panning |-> [x |-> 0, y |-> 0], innerWidth |-> Px(v.w), innerHeight |-> Px(v.h),
              elements |-> renderAll(DemoNodes)]
    IN Only({Only({arrange(second) : second \in {arrange(first)}}) :
               first \in {arrange(g)}}).nodes

\* the mounted editor at rest: the demo diagram, arranged, no callback pending
MountedEditor(v) ==
    /\ graphNodes = Mounted(v)
    /\ connections = DemoConnections
    /\ scaling = 1
    /\ panning = [x |-> 0, y |-> 0]
    /\ innerWidth = Px(v.w)
    /\ innerHeight = Px(v.h)
    /\ elements = renderAll(DemoNodes)
    /\ suppressAutoArrange = FALSE
    /\ timers = <<>>
    /\ frames = <<>>
    /\ dragging = NoNode
    /\ draft = <<>>
    /\ nextId = Len(DemoNodes) + 1
    /\ lastOp = "onMounted"
    /\ lastPass = NoPass
    /\ passCount = 0
    /\ editCount = 0
    /\ dragMoves = 0
    /\ loaded = NoLoad
    /\ given = Positions(graphNodes)

Init == \E v \in EditorViewports : MountedEditor(v) /\ SaveIdle

\* What every add handler ends with, and the flush after it: autoArrangeNodes(),
\* refreshConnectionCoords(), then the watcher's callback and the render.
FinishEdit(g, name) ==
    \E r \in {autoArrangeNodes(g, frames)} :
       /\ graphNodes' = r.nodes
       /\ connections' = g.connections
       /\ frames' = refreshConnectionCoords(r.nodes, r.frames)
       /\ lastPass' = r.pass
       /\ timers' = watch(timers, suppressAutoArrange)
       /\ elements' = renderAll(r.nodes)
       /\ editCount' = editCount + 1
       /\ loaded' = NoLoad
       /\ lastOp' = name
       /\ UNCHANGED <<scaling, panning, innerWidth, innerHeight, suppressAutoArrange,
                      dragging, draft, passCount, dragMoves,
                   saveVars>>
       /\ given' = givenAfter(graphNodes, graphNodes')

\* no callback of the program is pending
AtRest == timers = <<>> /\ frames = <<>>

\* the user edits with a free pointer
CanEdit == editCount < MaxEdits /\ dragging = NoNode

AddInputPort ==
    /\ CanEdit
    /\ \E p \in {n \in ProcessTargets \cap IdSet(graphNodes) : IsProcess(NodeOf(graphNodes, n))} :
          FinishEdit(addPortWithResource(View(graphNodes), p, "input", nextId), "addInputPort")
    /\ nextId' = nextId + 1

AddOutputPort ==
    /\ CanEdit
    /\ \E p \in {n \in ProcessTargets \cap IdSet(graphNodes) : IsProcess(NodeOf(graphNodes, n))} :
          FinishEdit(addPortWithResource(View(graphNodes), p, "output", nextId), "addOutputPort")
    /\ nextId' = nextId + 1

AddMechanismPort ==
    /\ CanEdit
    /\ \E p \in {n \in ProcessTargets \cap IdSet(graphNodes) : IsProcess(NodeOf(graphNodes, n))} :
          FinishEdit(addPortWithResource(View(graphNodes), p, "service", nextId),
                     "addMechanismPort")
    /\ nextId' = nextId + 1

\* addProcessFromOutput(resource, intf): intf is the right-hand port of an output resource
processFromOutput(g, resourceId, processId) ==
    LET resource == NodeOf(g.nodes, resourceId)
        processCount == Len(processNodes(g))
        process == [NewProcessNode(processId) EXCEPT
                       !.title = "Process " \o ToString(processCount + 1)]
        processInput == portsAt(process, "inputs", "left")
        resourceWidth == getNodeSize(g, resourceId, ResourceFallback).width
        g1 == [g EXCEPT
                 !.nodes = Append(@, process),
                 !.connections =
                     IF Len(processInput) > 0
                     THEN addConnection(@, firstOutput(resource),
                                        PortRef(processId, "inputs", processInput[1].key))
                     ELSE @]
    IN setPos(g1, processId, resource.position.x + resourceWidth + Px(60), resource.position.y)

AddProcessFromOutput ==
    /\ CanEdit
    /\ \E r \in {n \in IdSet(graphNodes) :
                    IsResource(NodeOf(graphNodes, n)) /\ NodeOf(graphNodes, n).resourceType = "output"} :
          FinishEdit(processFromOutput(View(graphNodes), r, nextId), "addProcessFromOutput")
    /\ nextId' = nextId + 1

\* deleteNode(node): graph.removeNode, refreshConnectionCoords; then the watcher
DeleteNode ==
    /\ CanEdit
    /\ \E n \in DeleteTargets \cap IdSet(graphNodes) :
          LET g == removeNode(View(graphNodes), n)
          IN /\ graphNodes' = g.nodes
             /\ connections' = g.connections
             /\ frames' = refreshConnectionCoords(g.nodes, frames)
             /\ elements' = renderAll(g.nodes)
    /\ timers' = watch(timers, suppressAutoArrange)
    /\ editCount' = editCount + 1
    /\ loaded' = NoLoad
    /\ lastOp' = "deleteNode"
    /\ UNCHANGED <<scaling, panning, innerWidth, innerHeight, suppressAutoArrange, dragging,
                   draft, nextId, lastPass, passCount, dragMoves,
                   saveVars>>
    /\ given' = givenAfter(graphNodes, graphNodes')

\* Time passes, while no timer is due, until the next timer is. Animation frames come
\* every 16 ms: the pending ones have run by then.
Tick ==
    /\ Len(timers) > 0
    /\ timers[1].left > 0
    /\ frames = <<>>
    /\ timers' = [i \in DOMAIN timers |-> [timers[i] EXCEPT !.left = @ - timers[1].left]]
    /\ UNCHANGED <<graphNodes, connections, scaling, panning, innerWidth, innerHeight,
                   elements, suppressAutoArrange, frames, dragging, draft, nextId, lastOp,
                   lastPass, passCount, editCount, dragMoves, loaded,
                   saveVars, given>>

\* the first due timer runs: a layout pass, or a connection refresh
TimerFire ==
    /\ Len(timers) > 0
    /\ timers[1].left = 0
    /\ timers[1].cb \in {"autoArrangeNodes", "refreshConnectionCoords"}
    /\ timers' = Tail(timers)
    /\ IF timers[1].cb = "autoArrangeNodes"
       THEN \E r \in {autoArrangeNodes(View(graphNodes), frames)} :
               /\ graphNodes' = r.nodes
               /\ frames' = r.frames
               /\ lastPass' = r.pass
       ELSE /\ frames' = refreshConnectionCoords(graphNodes, frames)
            /\ UNCHANGED <<graphNodes, lastPass>>
    /\ lastOp' = timers[1].cb
    /\ UNCHANGED <<connections, scaling, panning, innerWidth, innerHeight, elements,
                   suppressAutoArrange, dragging, draft, nextId, passCount, editCount,
                   dragMoves, loaded,
                   saveVars>>
    /\ given' = givenAfter(graphNodes, graphNodes')

\* The user presses on a node (onStartDrag), moves the pointer, releases.
StartDrag ==
    /\ dragging = NoNode
    /\ dragMoves < MaxDragMoves
    /\ \E n \in DragTargets \cap IdSet(graphNodes) : dragging' = n
    /\ UNCHANGED <<graphNodes, connections, scaling, panning, innerWidth, innerHeight,
                   elements, suppressAutoArrange, timers, frames, draft, nextId, lastOp,
                   lastPass, passCount, editCount, dragMoves, loaded,
                   saveVars, given>>

DragMove ==
    /\ dragging # NoNode
    /\ dragMoves < MaxDragMoves
    /\ LET at == NodeOf(graphNodes, dragging).position
       IN graphNodes' = setPos(View(graphNodes), dragging, at.x + Px(12), at.y + Px(8)).nodes
    /\ dragMoves' = dragMoves + 1
    /\ loaded' = NoLoad
    /\ UNCHANGED <<connections, scaling, panning, innerWidth, innerHeight, elements,
                   suppressAutoArrange, timers, frames, dragging, draft, nextId, lastOp,
                   lastPass, passCount, editCount,
                   saveVars>>
    /\ given' = givenAfter(graphNodes, graphNodes')

EndDrag ==
    /\ dragging # NoNode
    /\ dragging' = NoNode
    /\ UNCHANGED <<graphNodes, connections, scaling, panning, innerWidth, innerHeight,
                   elements, suppressAutoArrange, timers, frames, draft, nextId, lastOp,
                   lastPass, passCount, editCount, dragMoves, loaded,
                   saveVars, given>>

\* value.trim(): the value without the blanks at its two ends
trim(value) ==
    LET kept == {i \in DOMAIN value : value[i] # " "}
    IN IF kept = {} THEN <<>>
       ELSE SubSeq(value, CHOOSE i \in kept : \A k \in kept : i <= k,
                   CHOOSE i \in kept : \A k \in kept : i >= k)

\* the per-node snapshot of a payload ("" and <<>> stand for undefined)
SavedNodeMeta(node) ==
    [id |-> node.id, type |-> node.type, title |-> node.title, position |-> node.position,
     resourceType |-> node.resourceType, fields |-> node.fields]

\* buildFlowPayload(): graph.save(), where ResourceNode.save adds the kind and the
\* fields to each node state, and each node's snapshot, with the view and the contact
\* (<<>> stands for undefined)
flowPayload(email, phone) ==
    [graph |-> [nodes |-> graphNodes, connections |-> connections],
     nodes |-> [i \in DOMAIN graphNodes |-> SavedNodeMeta(graphNodes[i])],
     view |-> [scaling |-> scaling, panning |-> panning],
     contact |-> [email |-> trim(email), phone |-> trim(phone)]]

buildFlowPayload == flowPayload(contactEmail, contactPhone)

\* metaById.get(id): the snapshots with that id, none or one
metaById(metas, id) == SelectSeq(metas, LAMBDA m : m.id = id)

\* a node state left as it was saved
enrichNothing(nodeState, metas) == nodeState

\* enrichedGraph.nodes: a node state without a kind or without fields takes them from
\* its snapshot
enrich(nodeState, metas) ==
    LET found == metaById(metas, nodeState.id)
    IN IF Len(found) = 0 THEN nodeState
       ELSE [nodeState EXCEPT
                !.resourceType = IF found[1].resourceType # "" /\ @ = ""
                                 THEN found[1].resourceType ELSE @,
                !.fields = IF found[1].fields # <<>> /\ @ = <<>> THEN found[1].fields ELSE @]

\* graph.load creates each node with its type's constructor and loads the saved state
\* into it. ResourceNode.load: the constructor made an input resource; a saved kind
\* other than that replaces the ports and the fields by those of the saved kind; id,
\* title and position are restored, only ports the constructor or the rebuild made
\* exist afterwards, and saved fields replace the fields.
loadNode(saved) ==
    LET made == IF IsProcess(saved) THEN NewProcessNode(saved.id)
                ELSE NewResourceNode(saved.id, "input")
        fresh == IF IsResource(saved) /\ saved.resourceType # ""
                      /\ saved.resourceType # made.resourceType
                 THEN initInterfaces([made EXCEPT !.resourceType = saved.resourceType],
                                     saved.resourceType)
                 ELSE made
    IN [fresh EXCEPT !.title = saved.title, !.position = saved.position,
                     !.fields = IF IsResource(saved) /\ saved.fields # <<>>
                                THEN saved.fields ELSE @]

\* graph.nodes.forEach after graph.load: the snapshot's title, position, kind and fields
applyMeta(node, metas) ==
    LET found == metaById(metas, node.id)
    IN IF Len(found) = 0 THEN node
       ELSE [node EXCEPT
                !.title = IF found[1].title # "" THEN found[1].title ELSE @,
                !.position = found[1].position,
                !.resourceType = IF IsResource(node) /\ found[1].resourceType # ""
                                 THEN found[1].resourceType ELSE @,
                !.fields = IF IsResource(node) /\ found[1].fields # <<>>
                           THEN found[1].fields ELSE @]

hasPort(nodes, ref) ==
    \E i \in DOMAIN nodes :
        nodes[i].id = ref.node /\ \E k \in DOMAIN nodes[i][ref.io] : nodes[i][ref.io][k].key = ref.key

\* graph.load(enrichedGraph), where a saved connection whose port no longer exists is
\* dropped, and then the snapshots laid over the loaded nodes
loadGraph(payload) ==
    LET nodes == [i \in DOMAIN payload.graph.nodes |->
                     loadNode(enrich(payload.graph.nodes[i], payload.nodes))]
    IN [nodes |-> [i \in DOMAIN nodes |-> applyMeta(nodes[i], payload.nodes)],
        connections |-> SelectSeq(payload.graph.connections,
                                  LAMBDA c : hasPort(nodes, c.from) /\ hasPort(nodes, c.to))]

\* scheduleRefresh: delays [0, 50, 150, 400, 800]
RECURSIVE scheduleRefresh(_, _, _)
scheduleRefresh(pending, delays, k) ==
    IF k > Len(delays) THEN pending
    ELSE scheduleRefresh(setTimeout(pending, "refreshConnectionCoords", delays[k]), delays, k + 1)

\* handleSaveFlow without a token: storeDraftToSession(), then the sign-in dialog
StoreDraft ==
    /\ dragging = NoNode
    /\ AtRest
    /\ draft = <<>>
    /\ ~loaded.on
    /\ draft' = <<buildFlowPayload>>
    /\ lastOp' = "storeDraftToSession"
    /\ UNCHANGED <<graphNodes, connections, scaling, panning, innerWidth, innerHeight,
                   elements, suppressAutoArrange, timers, frames, dragging, nextId, lastPass,
                   passCount, editCount, dragMoves, loaded,
                   saveVars, given>>

\* applyFlowPayload(payload) and the flush after it, with the timers and the e-mail
\* field as its caller left them. The watcher's callback runs while suppressAutoArrange
\* is still true; the next tick clears it and schedules the refreshes. A contact of the
\* payload fills a blank field (whose localStorage entry the field's watcher removed).
applyFlowPayload(payload, pending, email) ==
    \E g \in {loadGraph(payload)} :
       /\ graphNodes' = g.nodes
       /\ connections' = g.connections
       /\ scaling' = IF payload.view.scaling # 0 THEN payload.view.scaling ELSE scaling
       /\ panning' = payload.view.panning
       /\ elements' = renderAll(g.nodes)
       /\ timers' = scheduleRefresh(watch(pending, TRUE), <<0, 1, 3, 8, 16>>, 1)
       /\ loaded' = [on |-> TRUE,
                     positions |-> [i \in DOMAIN g.nodes |-> g.nodes[i].position],
                     states |-> payload.graph.nodes]
       /\ suppressAutoArrange' = FALSE
       /\ given' = Positions(g.nodes)
       /\ contactEmail' = IF payload.contact.email # <<>> /\ trim(email) = <<>>
                          THEN payload.contact.email ELSE email
       /\ contactPhone' = IF payload.contact.phone # <<>> /\ trim(contactPhone) = <<>>
                          THEN payload.contact.phone ELSE contactPhone

\* The sign-in completes: restoreDraftFromSession() -> applyFlowPayload(payload).
RestoreDraft ==
    /\ dragging = NoNode
    /\ Len(draft) > 0
    /\ applyFlowPayload(draft[1], timers, contactEmail)
    /\ draft' = <<>>
    /\ lastOp' = "applyFlowPayload"
    /\ UNCHANGED <<innerWidth, innerHeight, frames, dragging, nextId, lastPass, passCount,
                   editCount, dragMoves, storedEmail, authToken, currentFlowId, isSaving,
                   pendingSave, saveError, saveStatus, fetching, modalOpen, saveClicks, serviceVars>>

\* The editor while the user edits and drags.
Next ==
    \/ AddInputPort
    \/ AddOutputPort
    \/ AddMechanismPort
    \/ AddProcessFromOutput
    \/ DeleteNode
    \/ Tick
    \/ TimerFire
    \/ AnimationFrame
    \/ StartDrag
    \/ DragMove
    \/ EndDrag

Spec == Init /\ [][Next]_vars

\* The editor while a draft is stored and restored: the user drags, edits and saves at
\* rest; the sign-in that restores the draft completes at any moment.
NextLoad ==
    \/ AddInputPort
    \/ AddOutputPort
    \/ AddMechanismPort
    \/ AddProcessFromOutput
    \/ DeleteNode
    \/ Tick
    \/ TimerFire
    \/ AnimationFrame
    \/ (AtRest /\ StartDrag)
    \/ (AtRest /\ DragMove)
    \/ (AtRest /\ EndDrag)
    \/ StoreDraft
    \/ RestoreDraft

SpecLoad == Init /\ [][NextLoad]_vars

(***************************************************************************)
(* The editor from its setup on: onMounted finds the graph empty and seeds *)
(* the demo, or finds nodes and wires them with ensureDemoConnections; the *)
(* timers it leaves run, and the user edits, saves and signs in.           *)
(***************************************************************************)
DemoNodesWithout(ids) == SelectSeq(DemoNodes, LAMBDA n : n.id \notin ids)

\* the graphs onMounted finds: none, the demo's nodes, the demo's nodes with a single
\* input and output, without the waste process, without the property resource, and
\* with an input titled "Paint"
GraphsAtSetup ==
    {<<>>, DemoNodes, DemoNodesWithout({2, 12}), DemoNodesWithout({10}), DemoNodesWithout({8}),
     setTitle(DemoNodes, 1, "Paint")}

InitSetup ==
    /\ graphNodes \in GraphsAtSetup
    /\ connections = <<>>
    /\ scaling = 1
    /\ panning = [x |-> 0, y |-> 0]
    /\ innerWidth = Px(1600)
    /\ innerHeight = Px(900)
    /\ elements = renderAll(<<>>)
    /\ suppressAutoArrange = FALSE
    /\ timers = <<>>
    /\ frames = <<>>
    /\ dragging = NoNode
    /\ draft = <<>>
    /\ nextId = Len(DemoNodes) + 1
    /\ lastOp = "setup"
    /\ lastPass = NoPass
    /\ passCount = 0
    /\ editCount = 0
    /\ dragMoves = 0
    /\ loaded = NoLoad
    /\ given = Positions(graphNodes)
    /\ SaveIdle

\* onMounted without a flow id or a stored draft, and the flush after it
OnMounted ==
    /\ lastOp = "setup"
    /\ IF Len(graphNodes) > 0
       THEN \E r \in {ensureDemoConnections(View(graphNodes))} :
               /\ graphNodes' = graphNodes
               /\ connections' = r.connections
               /\ timers' = LET own == IF r.wired THEN setTimeout(timers, "autoArrangeNodes", 1)
                                       ELSE timers
                            IN IF Len(r.connections) # Len(connections)
                               THEN watch(own, suppressAutoArrange) ELSE own
               /\ frames' = refreshConnectionCoords(graphNodes, frames)
       ELSE /\ graphNodes' = DemoNodes
            /\ connections' = DemoConnections
            /\ timers' = watch(setTimeout(setTimeout(setTimeout(timers, "autoArrangeNodes", 2),
                                                     "autoArrangeNodes", 10),
                                          "refreshConnectionCoords", 4),
                               suppressAutoArrange)
            /\ frames' = frames
    /\ elements' = renderAll(graphNodes')
    /\ lastOp' = "onMounted"
    /\ UNCHANGED <<scaling, panning, innerWidth, innerHeight, suppressAutoArrange, dragging,
                   draft, nextId, lastPass, passCount, editCount, dragMoves, loaded,
                   saveVars>>
    /\ given' = givenAfter(graphNodes, graphNodes')

\* onMounted has run
IsMounted == lastOp # "setup"

NextMount ==
    \/ OnMounted
    \/ (IsMounted /\ AddInputPort)
    \/ (IsMounted /\ AddOutputPort)
    \/ (IsMounted /\ AddMechanismPort)
    \/ (IsMounted /\ AddProcessFromOutput)
    \/ (IsMounted /\ DeleteNode)
    \/ Tick
    \/ TimerFire
    \/ AnimationFrame
    \/ (IsMounted /\ StoreDraft)
    \/ RestoreDraft

SpecMount == InitSetup /\ [][NextMount]_vars

(***************************************************************************)
(* Saving: the Save button, the contact fields, the sign-in dialog and the *)
(* request to the flow API.  Field values are sequences of characters.     *)
(***************************************************************************)
MaxSaves == 2

Emails == {<<>>, <<"a", "@", "b", ".", "c">>, <<"a", "@", ".", "c">>}
Phones == {<<>>, <<" ">>, <<" ", "1">>}

\* A faulty variant of isValidEmail, which asks for the "@" only.
isValidEmailWithoutDot(value) == \E i \in DOMAIN value : value[i] = "@"

\* /^[^\s@]+@[^\s@]+\.[^\s@]+$/.test(value)
isValidEmail(value) ==
    /\ \A i \in DOMAIN value : value[i] # " "
    /\ Cardinality({i \in DOMAIN value : value[i] = "@"}) = 1
    /\ \E i, j \in DOMAIN value :
          value[i] = "@" /\ value[j] = "." /\ 1 < i /\ i + 1 < j /\ j < Len(value)

\* What handleSaveFlow decides once it is past "if (isSaving.value) return": the value
\* it leaves in the e-mail field, its message, and whether it ends with an error, with
\* the sign-in dialog or with the request.
saveDecision(phone, email, stored, flowId, token) ==
    LET filled == IF trim(email) = <<>> /\ stored # <<>> THEN stored ELSE email
    IN IF trim(phone) = <<>>
       THEN [does |-> "error", email |-> email, saveError |-> "Phone number is required."]
       ELSE IF trim(filled) = <<>> /\ flowId = "" /\ token = ""
       THEN [does |-> "modal", email |-> filled, saveError |-> ""]
       ELSE IF trim(filled) = <<>>
       THEN [does |-> "error", email |-> filled, saveError |-> "Email is required."]
       ELSE IF ~isValidEmail(trim(filled))
       THEN [does |-> "error", email |-> filled, saveError |-> "Enter a valid email address."]
       ELSE IF flowId = "" /\ token = ""
       THEN [does |-> "modal", email |-> filled, saveError |-> ""]
       ELSE [does |-> "request", email |-> filled, saveError |-> ""]

\* handleSaveFlow() up to its first await; the timers are its caller's
handleSaveFlow ==
    /\ lastOp' = "handleSaveFlow"
    /\ IF isSaving
       THEN UNCHANGED <<contactEmail, saveError, pendingSave, draft, modalOpen, isSaving,
                        saveStatus, fetching>>
       ELSE \E d \in {saveDecision(contactPhone, contactEmail, storedEmail, currentFlowId,
                                   authToken)} :
               /\ contactEmail' = d.email
               /\ saveError' = d.saveError
               /\ pendingSave' = (pendingSave \/ d.does = "modal")
               /\ draft' = IF d.does = "modal" THEN <<flowPayload(d.email, contactPhone)>>
                           ELSE draft
               /\ modalOpen' = (modalOpen \/ d.does = "modal")
               /\ isSaving' = (d.does = "request")
               /\ saveStatus' = IF d.does = "request" THEN "Saving..." ELSE saveStatus
               /\ fetching' =
                     IF d.does = "request"
                     THEN <<[method |-> IF currentFlowId # "" THEN "PUT" ELSE "POST",
                             contact |-> flowPayload(d.email, contactPhone).contact]>>
                     ELSE fetching
    /\ UNCHANGED <<graphNodes, connections, scaling, panning, innerWidth, innerHeight,
                   elements, suppressAutoArrange, frames, dragging, nextId, lastPass,
                   passCount, editCount, dragMoves, loaded, contactPhone, storedEmail,
                   authToken, currentFlowId, given, serviceVars>>

\* a click on the Save button, which is disabled while isSaving
ClickSave ==
    /\ ~isSaving
    /\ saveClicks < MaxSaves
    /\ saveClicks' = saveClicks + 1
    /\ handleSaveFlow
    /\ UNCHANGED timers

\* a due timer of the save toolbar runs: the save the sign-in asked for, or the one
\* that clears the "Saved" status
SaveTimerFire ==
    /\ Len(timers) > 0
    /\ timers[1].left = 0
    /\ timers' = Tail(timers)
    /\ IF timers[1].cb = "handleSaveFlow"
       THEN handleSaveFlow
       ELSE /\ timers[1].cb = "clearSaved"
            /\ saveStatus' = IF saveStatus = "Saved" THEN "" ELSE saveStatus
            /\ lastOp' = "clearSaved"
            /\ UNCHANGED <<graphNodes, connections, scaling, panning, innerWidth, innerHeight,
                           elements, suppressAutoArrange, frames, dragging, draft, nextId,
                           lastPass, passCount, editCount, dragMoves, loaded, contactEmail,
                           contactPhone, storedEmail, authToken, currentFlowId, isSaving,
                           pendingSave, saveError, fetching, modalOpen, given>>
    /\ UNCHANGED <<saveClicks, serviceVars>>

\* the user types in a contact field (v-model)
TypeContact ==
    /\ \/ contactEmail' \in Emails \ {contactEmail} /\ UNCHANGED contactPhone
       \/ contactPhone' \in Phones \ {contactPhone} /\ UNCHANGED contactEmail
    /\ lastOp' = "input"
    /\ UNCHANGED <<graphNodes, connections, scaling, panning, innerWidth, innerHeight,
                   elements, suppressAutoArrange, timers, frames, dragging, draft, nextId,
                   lastPass, passCount, editCount, dragMoves, loaded, storedEmail, authToken,
                   currentFlowId, isSaving, pendingSave, saveError, saveStatus, fetching,
                   modalOpen, saveClicks, given, serviceVars>>

\* The sign-in completes, the callback given to initReownAppKit runs: the token, the
\* stored e-mail for a blank field and, for a pending save, the draft and a save.
SignIn ==
    /\ authToken = ""
    /\ authToken' = "token"
    /\ modalOpen' = FALSE
    /\ pendingSave' = FALSE
    /\ \E email \in {IF trim(contactEmail) = <<>> /\ storedEmail # <<>> THEN storedEmail
                      ELSE contactEmail} :
          IF pendingSave /\ Len(draft) > 0
          THEN applyFlowPayload(draft[1], setTimeout(timers, "handleSaveFlow", 0), email)
          ELSE /\ contactEmail' = email
               /\ timers' = IF pendingSave THEN setTimeout(timers, "handleSaveFlow", 0)
                            ELSE timers
               /\ UNCHANGED <<graphNodes, connections, scaling, panning, elements,
                              suppressAutoArrange, loaded, contactPhone, given>>
    /\ draft' = IF pendingSave THEN <<>> ELSE draft
    /\ lastOp' = "onToken"
    /\ UNCHANGED <<innerWidth, innerHeight, frames, dragging, nextId, lastPass, passCount,
                   editCount, dragMoves, storedEmail, currentFlowId, isSaving, saveError,
                   saveStatus, fetching, saveClicks, serviceVars>>

\* The response to the request arrives, or the request fails: the rest of handleSaveFlow.
FetchResponse ==
    /\ Len(fetching) > 0
    /\ fetching' = <<>>
    /\ isSaving' = FALSE
    /\ timers' = setTimeout(timers, "clearSaved", 40)
    /\ \E ok \in BOOLEAN :
          /\ saveStatus' = IF ok THEN "Saved" ELSE "Save failed"
          /\ currentFlowId' = IF ok /\ fetching[1].method = "POST" THEN "flow" ELSE currentFlowId
          /\ draft' = IF ok THEN <<>> ELSE draft
    /\ lastOp' = "fetch"
    /\ UNCHANGED <<graphNodes, connections, scaling, panning, innerWidth, innerHeight,
                   elements, suppressAutoArrange, frames, dragging, nextId, lastPass,
                   passCount, editCount, dragMoves, loaded, contactEmail, contactPhone,
                   storedEmail, authToken, pendingSave, saveError, modalOpen, saveClicks,
                   given, serviceVars>>

\* The mounted editor: restoreContactFields() has read the contact fields a former
\* visit left in localStorage, the sign-in may have stored a token and an e-mail.
InitSave ==
    /\ MountedEditor([w |-> 1600, h |-> 900])
    /\ contactEmail \in Emails
    /\ contactPhone \in {trim(p) : p \in Phones}
    /\ storedEmail \in {<<>>, <<"s", "@", "b", ".", "c">>}
    /\ authToken \in {"", "token"}
    /\ currentFlowId = ""
    /\ isSaving = FALSE
    /\ pendingSave = FALSE
    /\ saveError = ""
    /\ saveStatus = ""
    /\ fetching = <<>>
    /\ modalOpen = FALSE
    /\ saveClicks = 0
    /\ appkit = NoAppKit
    /\ autocomplete = NoAutocomplete
    /\ flows = NoFlows

NextSave ==
    \/ ClickSave
    \/ SaveTimerFire
    \/ TypeContact
    \/ SignIn
    \/ FetchResponse
    \/ Tick
    \/ TimerFire
    \/ AnimationFrame

SpecSave == InitSave /\ [][NextSave]_vars

(***************************************************************************)
(* The editor opened on a stored flow: onMounted found a flow id in the     *)
(* URL and called loadFlowById, whose GET request is in flight.  The server *)
(* returns the payload as it was saved: by this version of the program, or  *)
(* by an earlier one whose node states carry no kind or no fields.          *)
(***************************************************************************)
ProcessPortFor(resourceType) ==
    CASE resourceType = "input" -> "inputinstance_material"
      [] resourceType \in {"machine", "energy"} -> "machineinstance_category"
      [] resourceType = "gas" -> "serviceinstance_gas"
      [] resourceType = "water" -> "serviceinstance_water"
      [] resourceType = "service" -> "serviceinstance_service"
      [] OTHER -> "serviceinstance_property"

\* a process and one resource of a kind, connected as ensureDemoConnections connects them
StoredGraph(resourceType, edited) ==
    LET resource == NewResourceNode(2, resourceType)
    IN [nodes |-> <<[NewProcessNode(1) EXCEPT !.position = [x |-> Px(300), y |-> Px(200)]],
                    [resource EXCEPT !.position = [x |-> Px(40), y |-> Px(60)],
                                     !.fields = IF edited THEN [@ EXCEPT ![1][2] = "x"] ELSE @]>>,
        connections |->
            IF resourceType = "output"
            THEN <<[from |-> PortRef(1, "outputs", "output_mainproduct"),
                    to |-> PortRef(2, "inputs", "product")]>>
            ELSE <<[from |-> PortRef(2, "outputs", ResourceOutputKey(resourceType)),
                    to |-> PortRef(1, "inputs", ProcessPortFor(resourceType))]>>]

Without2(node, noKind, noFields) ==
    [node EXCEPT !.resourceType = IF noKind /\ IsResource(node) THEN "" ELSE @,
                 !.fields = IF noFields THEN <<>> ELSE @]

StoredFlow(resourceType, edited, stateNoKind, stateNoFields, metaNoKind, metaNoFields) ==
    LET g == StoredGraph(resourceType, edited)
    IN [graph |-> [g EXCEPT !.nodes = [i \in DOMAIN @ |->
                                          Without2(@[i], stateNoKind, stateNoFields)]],
        nodes |-> [i \in DOMAIN g.nodes |->
                      SavedNodeMeta(Without2(g.nodes[i], metaNoKind, metaNoFields))],
        view |-> [scaling |-> 1, panning |-> [x |-> 0, y |-> 0]],
        contact |-> [email |-> <<>>, phone |-> <<>>]]

StoredFlows ==
    {StoredFlow(k, e, sk, sf, mk, mf) :
        k \in ResourceTypes, e \in BOOLEAN, sk \in BOOLEAN, sf \in BOOLEAN,
        mk \in BOOLEAN, mf \in BOOLEAN}

InitStored ==
    /\ graphNodes = <<>>
    /\ connections = <<>>
    /\ scaling = 1
    /\ panning = [x |-> 0, y |-> 0]
    /\ innerWidth = Px(1600)
    /\ innerHeight = Px(900)
    /\ elements = renderAll(<<>>)
    /\ suppressAutoArrange = FALSE
    /\ timers = <<>>
    /\ frames = <<>>
    /\ dragging = NoNode
    /\ draft = <<>>
    /\ nextId = 3
    /\ lastOp = "onMounted"
    /\ lastPass = NoPass
    /\ passCount = 0
    /\ editCount = 0
    /\ dragMoves = 0
    /\ loaded = NoLoad
    /\ given = Positions(graphNodes)
    /\ contactEmail = <<>>
    /\ contactPhone = <<>>
    /\ storedEmail = <<>>
    /\ authToken = ""
    /\ currentFlowId = "flow"
    /\ isSaving = FALSE
    /\ pendingSave = FALSE
    /\ saveError = ""
    /\ saveStatus = ""
    /\ fetching \in {<<[method |-> "GET", body |-> payload]>> : payload \in StoredFlows}
    /\ modalOpen = FALSE
    /\ saveClicks = 0
    /\ appkit = NoAppKit
    /\ autocomplete = NoAutocomplete
    /\ flows = NoFlows

\* loadFlowById after its fetch: the response is not ok, or its payload is applied
LoadFlowResponse ==
    /\ Len(fetching) > 0
    /\ fetching[1].method = "GET"
    /\ fetching' = <<>>
    /\ \E ok \in BOOLEAN :
          IF ok
          THEN /\ applyFlowPayload(fetching[1].body, timers, contactEmail)
               /\ lastOp' = "applyFlowPayload"
               /\ UNCHANGED saveStatus
          ELSE /\ saveStatus' = "Failed to load flow"
               /\ lastOp' = "loadFlowById"
               /\ UNCHANGED <<graphNodes, connections, scaling, panning, elements, timers,
                              loaded, suppressAutoArrange, given, contactEmail, contactPhone>>
    /\ UNCHANGED <<innerWidth, innerHeight, frames, dragging, draft, nextId, lastPass,
                   passCount, editCount, dragMoves, storedEmail, authToken, currentFlowId,
                   isSaving, pendingSave, saveError, modalOpen, saveClicks, serviceVars>>

NextStored ==
    \/ LoadFlowResponse
    \/ Tick
    \/ TimerFire
    \/ AnimationFrame

SpecStored == InitStored /\ [][NextStored]_vars

(***************************************************************************)
(* The window is resized or rotated.  The only "resize" listener of the    *)
(* program is updateOrientation of ResourceNode.vue, which recomputes the   *)
(* isVertical flag of each resource node; App.vue registers none, and its   *)
(* watcher looks at the node and connection counts only.                    *)
(***************************************************************************)
isVertical == innerHeight > innerWidth

\* a variant of the resource node's map that leaves the mechanism ports on top
remapSideKeepingTop(side, vertical) ==
    IF ~vertical THEN side
    ELSE CASE side = "right" -> "bottom" [] side = "left" -> "top" [] OTHER -> side

\* remapSide of ResourceNode.vue
remapSideOfResource(side, vertical) ==
    IF ~vertical THEN side
    ELSE CASE side = "right" -> "bottom" [] side = "left" -> "top" [] side = "top" -> "left"
           [] OTHER -> "bottom"

\* remapSide of the process node's component
remapSideOfProcess(side, vertical) ==
    IF ~vertical THEN side
    ELSE CASE side = "left" -> "top" [] side = "right" -> "bottom" [] OTHER -> "right"

\* the side of its node on which a port is drawn: the template takes the ports by
\* their stored location and styles them with remapSide of it
renderedSide(node, port) ==
    IF IsProcess(node) THEN remapSideOfProcess(port.location, isVertical)
    ELSE remapSideOfResource(port.location, isVertical)

WindowResize ==
    /\ \E v \in EditorViewports :
          /\ <<Px(v.w), Px(v.h)>> # <<innerWidth, innerHeight>>
          /\ innerWidth' = Px(v.w)
          /\ innerHeight' = Px(v.h)
    /\ lastOp' = "resize"
    /\ UNCHANGED <<graphNodes, connections, scaling, panning, elements, suppressAutoArrange,
                   timers, frames, dragging, draft, nextId, lastPass, passCount, editCount,
                   dragMoves, loaded, saveVars, given>>

NextResize ==
    \/ OnMounted
    \/ (IsMounted /\ WindowResize)
    \/ Tick
    \/ TimerFire
    \/ AnimationFrame

\* TimerFire can be taken: the first timer is due
TimerDue ==
    /\ Len(timers) > 0
    /\ timers[1].left = 0
    /\ timers[1].cb \in {"autoArrangeNodes", "refreshConnectionCoords"}

\* The component is mounted, time passes, and the browser runs every due timer
\* and every requested animation frame: weak fairness of the four actions,
\* with the enabling conditions of OnMounted and TimerFire written out.
SpecResize ==
    /\ InitSetup
    /\ [][NextResize]_vars
    /\ ([]<>(IsMounted) \/ []<><<OnMounted>>_vars)
    /\ WF_vars(Tick)
    /\ ([]<>(~TimerDue) \/ []<><<TimerFire>>_vars)
    /\ WF_vars(AnimationFrame)

(***************************************************************************)
(* Measurements of the current diagram, used to state the properties.      *)
(***************************************************************************)
Now == View(graphNodes)

JustArranged == lastOp = "autoArrangeNodes" /\ lastPass.ran

ProcessIds == {n \in IdSet(graphNodes) : IsProcess(NodeOf(graphNodes, n))}
ResourceIds == {n \in IdSet(graphNodes) : IsResource(NodeOf(graphNodes, n))}
KindIds(kind) == {n \in ResourceIds : NodeOf(graphNodes, n).resourceType = kind}
MechanismIds == {n \in ResourceIds : NodeOf(graphNodes, n).resourceType \notin {"input", "output"}}

SizeNow(id) ==
    getNodeSize(Now, id,
                IF IsProcess(NodeOf(graphNodes, id)) THEN ProcessFallback ELSE ResourceFallback)

Left(id) == NodeOf(graphNodes, id).position.x
Top(id) == NodeOf(graphNodes, id).position.y
Right(id) == Left(id) + SizeNow(id).width
Bottom(id) == Top(id) + SizeNow(id).height

Apart(a, b) ==
    \/ Right(a) < Left(b) \/ Right(b) < Left(a)
    \/ Bottom(a) < Top(b) \/ Bottom(b) < Top(a)

CreatedBefore(a, b) ==
    \E i, j \in DOMAIN graphNodes : i < j /\ graphNodes[i].id = a /\ graphNodes[j].id = b

\* the processes a resource is connected to, through any of its ports
ConnectedProcesses(r) ==
    {p \in ProcessIds : \E i \in DOMAIN connections :
        \/ connections[i].from.node = r /\ connections[i].to.node = p
        \/ connections[i].to.node = r /\ connections[i].from.node = p}

Unconnected(r) ==
    \A i \in DOMAIN connections : connections[i].from.node # r /\ connections[i].to.node # r

InGroup(groups, owner, r) ==
    owner \in DOMAIN groups.items /\ \E i \in DOMAIN groups.items[owner] : groups.items[owner][i] = r

\* the group of the latest pass that holds resource r under this owner
GroupedUnder(owner, r) ==
    InGroup(lastPass.inputGroups, owner, r) \/ InGroup(lastPass.outputGroups, owner, r)

(***************************************************************************)
(* C1.  Running the layout pass twice in a row on a fixed diagram leaves   *)
(* every node where the first run put it: once a pass has run, one more    *)
(* pass changes no position.                                               *)
(***************************************************************************)
C1_SecondPassChangesNothing ==
    JustArranged => arrange(Now).nodes = graphNodes

(***************************************************************************)
(* C2.  An input or output resource connected to exactly one process P,    *)
(* through whichever of its ports, is put in P's group by a layout pass    *)
(* (so in the primary's group only when P is the primary).                 *)
(***************************************************************************)
C2_GroupedUnderItsOnlyProcess ==
    JustArranged =>
        \A r \in KindIds("input") \cup KindIds("output") : \A p \in ProcessIds :
            ConnectedProcesses(r) = {p} => GroupedUnder(p, r)

(***************************************************************************)
(* C3.  An input or output resource with zero connections is grouped under *)
(* the primary process: the first process titled "Process" or "Folyamat",  *)
(* or the first process when no process has such a title.                  *)
(***************************************************************************)
PrimaryByTitle ==
    LET procs == SelectSeq(graphNodes, IsProcess)
        titled == SelectSeq(procs, LAMBDA n : n.title \in {"Process", "Folyamat"})
    IN IF Len(titled) > 0 THEN titled[1].id
       ELSE IF Len(procs) > 0 THEN procs[1].id ELSE NoNode

C3_OrphanUnderTitledPrimary ==
    JustArranged /\ PrimaryByTitle # NoNode =>
        \A r \in KindIds("input") \cup KindIds("output") :
            Unconnected(r) => GroupedUnder(PrimaryByTitle, r)

(***************************************************************************)
(* C4.  After a payload is loaded, and until the user edits or moves a      *)
(* node, every node is at its saved position, whatever callbacks were       *)
(* pending when the load happened.  Positions are compared while no nudge   *)
(* of a connection refresh is in flight, and to within one pixel, so that   *)
(* only a layout pass can break the property.                               *)
(***************************************************************************)
Near(a, b) == a - b < Px(1) /\ b - a < Px(1)

C4_LoadKeepsSavedPositions ==
    (loaded.on /\ frames = <<>>) =>
        \A i \in DOMAIN graphNodes :
            /\ Near(graphNodes[i].position.x, loaded.positions[i].x)
            /\ Near(graphNodes[i].position.y, loaded.positions[i].y)

(***************************************************************************)
(* C5.  While the user holds a node, no step of the program writes that     *)
(* node's position: in every step that is not a pointer move, the dragged   *)
(* node stays where it is.                                                  *)
(***************************************************************************)
C5_DraggedNodeNotWritten ==
    [][(dragging # NoNode /\ dragging' = dragging /\ dragMoves' = dragMoves) =>
          NodeOf(graphNodes', dragging).position = NodeOf(graphNodes, dragging).position]_vars

(***************************************************************************)
(* C6.  In every stack a layout pass places, items are in node-creation    *)
(* order, consecutive boxes do not intersect, and the leading edge of item *)
(* i+1 is the trailing edge of item i plus the stack's gap: 30 down a      *)
(* landscape input or output column, 40 along the landscape mechanism row, *)
(* 20 along a portrait row and down the portrait mechanism column.         *)
(***************************************************************************)
StackedDown(items, gap) ==
    \A i \in 1 .. Len(items) - 1 :
        /\ CreatedBefore(items[i], items[i + 1])
        /\ Apart(items[i], items[i + 1])
        /\ Top(items[i + 1]) = Bottom(items[i]) + Px(gap)

StackedAlong(items, gap) ==
    \A i \in 1 .. Len(items) - 1 :
        /\ CreatedBefore(items[i], items[i + 1])
        /\ Apart(items[i], items[i + 1])
        /\ Left(items[i + 1]) = Right(items[i]) + Px(gap)

GroupStacks ==
    {lastPass.inputGroups.items[k] : k \in DOMAIN lastPass.inputGroups.items}
    \cup {lastPass.outputGroups.items[k] : k \in DOMAIN lastPass.outputGroups.items}

C6_StacksKeepOrderAndGap ==
    JustArranged =>
        IF lastPass.portrait
        THEN /\ \A items \in GroupStacks : StackedAlong(items, 20)
             /\ StackedDown(mechanismNodes(Now), 20)
        ELSE /\ \A items \in GroupStacks : StackedDown(items, 30)
             /\ StackedAlong(mechanismNodes(Now), 40)

C6_Witness ==
    /\ JustArranged
    /\ ~lastPass.portrait
    /\ \E k \in DOMAIN lastPass.inputGroups.items : Len(lastPass.inputGroups.items[k]) >= 2
    /\ \E k \in DOMAIN lastPass.outputGroups.items : Len(lastPass.outputGroups.items[k]) >= 2

(***************************************************************************)
(* C7.  For a fixed diagram, the pass run with a landscape viewport and    *)
(* the pass run with a portrait viewport leave no node at the same         *)
(* coordinates.  The diagram has just been arranged in its own viewport;   *)
(* it is compared with the pass in every viewport of the other             *)
(* orientation.                                                            *)
(***************************************************************************)
OtherOrientation ==
    {v \in Viewports : (v.h > v.w) # lastPass.portrait}

ArrangedIn(v) ==
    arrange([Now EXCEPT !.innerWidth = Px(v.w), !.innerHeight = Px(v.h)]).nodes

C7_EveryNodeMoves ==
    JustArranged =>
        \A v \in OtherOrientation :
            LET other == ArrangedIn(v)
            IN \A i \in DOMAIN graphNodes : other[i].position # graphNodes[i].position

(***************************************************************************)
(* C7, amended.  When the diagram has a process, the primary process is    *)
(* never at the same coordinates after a landscape pass and after a        *)
(* portrait pass, and the two passes keep the same nodes in the same       *)
(* order.                                                                  *)
(***************************************************************************)
C7_PrimaryProcessMoves ==
    JustArranged /\ lastPass.main # NoNode =>
        \A v \in OtherOrientation :
            LET other == ArrangedIn(v)
            IN /\ NodeOf(other, lastPass.main).position
                      # NodeOf(graphNodes, lastPass.main).position
               /\ Ids(other) = Ids(graphNodes)

C7_Witness ==
    /\ JustArranged
    /\ lastPass.main # NoNode
    /\ ~lastPass.portrait
    /\ \E v \in OtherOrientation : Px(v.w) = innerWidth
    /\ Len(graphNodes) >= 3

(***************************************************************************)
(* C8.  A layout pass run by a timer, a connection refresh and the          *)
(* animation frames that carry out its nudges change nothing but node       *)
(* positions: the nodes, their order, ids, types, titles, resource kinds    *)
(* and ports, and the connections are the same after the step as before.    *)
(***************************************************************************)
Structure(nodes) == [i \in DOMAIN nodes |-> [nodes[i] EXCEPT !.position = [x |-> 0, y |-> 0]]]

C8_PassAndRefreshKeepStructure ==
    [][lastOp' \in {"autoArrangeNodes", "refreshConnectionCoords", "animationFrame"} =>
          /\ Structure(graphNodes') = Structure(graphNodes)
          /\ connections' = connections]_vars

\* a timer's layout pass has just run on an edited portrait diagram with connections
C8_Witness ==
    /\ lastOp = "autoArrangeNodes"
    /\ lastPass.ran /\ lastPass.portrait
    /\ editCount > 0
    /\ Len(connections) > 0

(***************************************************************************)
(* C9.  Landscape, a single process: after one pass the inputs share one   *)
(* column entirely left of the process, the outputs one column entirely    *)
(* right of it, the mechanisms one row entirely below it, and no two       *)
(* resource footprints overlap.                                            *)
(***************************************************************************)
TheProcess == CHOOSE p \in ProcessIds : TRUE

C9_LandscapeSingleProcess ==
    JustArranged /\ ~lastPass.portrait /\ Cardinality(ProcessIds) = 1 =>
        /\ \A a, b \in KindIds("input") : Right(a) = Right(b)
        /\ \A a \in KindIds("input") : Right(a) < Left(TheProcess)
        /\ \A a, b \in KindIds("output") : Left(a) = Left(b)
        /\ \A a \in KindIds("output") : Left(a) > Right(TheProcess)
        /\ \A a, b \in MechanismIds : Top(a) = Top(b)
        /\ \A a \in MechanismIds : Top(a) > Bottom(TheProcess)
        /\ \A a, b \in ResourceIds : a # b => Apart(a, b)

ScenarioDiagram ==
    /\ Cardinality(ProcessIds) = 1
    /\ NodeOf(graphNodes, TheProcess).title = "Process"
    /\ Cardinality(KindIds("input")) = 2
    /\ Cardinality(KindIds("output")) = 2
    /\ Cardinality(MechanismIds) = 1
    /\ \A r \in ResourceIds : ConnectedProcesses(r) = {TheProcess}

C9_Witness ==
    /\ JustArranged
    /\ passCount = 1
    /\ innerWidth = Px(1600) /\ innerHeight = Px(900)
    /\ ScenarioDiagram

(***************************************************************************)
(* C10.  Portrait, a single process: after one pass the inputs share one   *)
(* row entirely above the process, the outputs one row entirely below it,  *)
(* and the left edge of the mechanism column is 90 to the right of the     *)
(* rightmost of the input row, the output row and the process.             *)
(***************************************************************************)
RightmostOf(ids) == CHOOSE x \in {Right(n) : n \in ids} : \A n \in ids : Right(n) <= x

C10_PortraitSingleProcess ==
    JustArranged /\ lastPass.portrait /\ Cardinality(ProcessIds) = 1 =>
        /\ \A a, b \in KindIds("input") : Top(a) = Top(b)
        /\ \A a \in KindIds("input") : Bottom(a) < Top(TheProcess)
        /\ \A a, b \in KindIds("output") : Top(a) = Top(b)
        /\ \A a \in KindIds("output") : Top(a) > Bottom(TheProcess)
        /\ \A m \in MechanismIds :
              Left(m) = RightmostOf(KindIds("input") \cup KindIds("output") \cup {TheProcess})
                        + Px(90)

C10_Witness ==
    /\ JustArranged
    /\ passCount = 1
    /\ innerWidth = Px(700) /\ innerHeight = Px(1200)
    /\ ScenarioDiagram

(***************************************************************************)
(* C11.  A handler that changes the node count or the connection count     *)
(* while the suppress flag is clear leaves exactly two more timers: a       *)
(* layout pass due in 50 ms and, after it in the queue, a connection        *)
(* refresh due in 100 ms; the queue stays in due order.  A load, whose      *)
(* changes the watcher sees with the flag set, leaves no more layout        *)
(* timers and only its own five refresh timers.                             *)
(***************************************************************************)
CountCb(ts, cb) == Cardinality({i \in DOMAIN ts : ts[i].cb = cb})

Without(ts, i, j) ==
    [k \in 1 .. (Len(ts) - 2) |-> ts[IF k < i THEN k ELSE IF k + 1 < j THEN k + 1 ELSE k + 2]]

InDueOrder(ts) == \A i, j \in DOMAIN ts : i < j => ts[i].left <= ts[j].left

C11_WatcherSchedulesPassThenRefresh ==
    [][(Len(graphNodes') # Len(graphNodes) \/ Len(connections') # Len(connections)) =>
          /\ InDueOrder(timers')
          /\ IF lastOp' = "applyFlowPayload"
             THEN /\ CountCb(timers', "autoArrangeNodes") = CountCb(timers, "autoArrangeNodes")
                  /\ CountCb(timers', "refreshConnectionCoords")
                        = CountCb(timers, "refreshConnectionCoords") + 5
             ELSE \E i, j \in DOMAIN timers' :
                     /\ i < j
                     /\ timers'[i] = [left |-> 1, cb |-> "autoArrangeNodes"]
                     /\ timers'[j] = [left |-> 2, cb |-> "refreshConnectionCoords"]
                     /\ Without(timers', i, j) = timers]_vars

\* a load has just undone an edit whose layout timer is still pending: the counts
\* changed under the flag, and the only layout timer is the edit's
C11_Witness ==
    /\ lastOp = "applyFlowPayload"
    /\ editCount > 0
    /\ Len(graphNodes) = Len(DemoNodes)
    /\ CountCb(timers, "autoArrangeNodes") = 1

(***************************************************************************)
(* C12.  Each add-input, add-output or add-mechanism action on a process P *)
(* adds exactly one new port to P (a left input, a right output, a bottom  *)
(* mechanism port), exactly one new resource node of the matching kind     *)
(* (input, output, service) and exactly one connection joining the         *)
(* resource's port to the new port; every port, node and connection that   *)
(* existed is kept.  The handler's pass then groups a new input or output  *)
(* resource under P; a new mechanism resource is in no process's group.    *)
(***************************************************************************)
AddedResource == graphNodes'[Len(graphNodes')]

\* this step added a port at the location to p's inputs or outputs, with one resource
\* of the kind and the connection between the two, and kept everything else
AddsPortWithResource(p, io, location, kind) ==
    LET old == NodeOf(graphNodes, p)
        new == NodeOf(graphNodes', p)
        port == new[io][Len(new[io])]
        link == IF io = "outputs"
                THEN [from |-> PortRef(p, io, port.key), to |-> firstInput(AddedResource)]
                ELSE [from |-> firstOutput(AddedResource), to |-> PortRef(p, io, port.key)]
    IN /\ Len(graphNodes') = Len(graphNodes) + 1
       /\ \A i \in DOMAIN graphNodes :
             /\ graphNodes'[i].id = graphNodes[i].id
             /\ graphNodes[i].id # p => Structure(graphNodes')[i] = Structure(graphNodes)[i]
       /\ new[io] = Append(old[io], port)
       /\ port.location = location
       /\ \A k \in DOMAIN old[io] : old[io][k].key # port.key
       /\ new = [old EXCEPT ![io] = new[io], !.position = new.position]
       /\ AddedResource.id \notin IdSet(graphNodes)
       /\ IsResource(AddedResource)
       /\ AddedResource.resourceType = kind
       /\ connections' = Append(connections, link)

AddStep(name) == lastOp' = name /\ editCount' = editCount + 1

\* the handler's pass put the added resource in a group of p
GroupedAfter(p) ==
    \/ InGroup(lastPass'.inputGroups, p, AddedResource.id)
    \/ InGroup(lastPass'.outputGroups, p, AddedResource.id)

AddStepOn(p) ==
    \/ AddStep("addInputPort") /\ AddsPortWithResource(p, "inputs", "left", "input")
    \/ AddStep("addOutputPort") /\ AddsPortWithResource(p, "outputs", "right", "output")
    \/ AddStep("addMechanismPort") /\ AddsPortWithResource(p, "inputs", "bottom", "service")

IsAddStep == \E name \in {"addInputPort", "addOutputPort", "addMechanismPort"} : AddStep(name)

\* C12 as amended: a new mechanism resource joins no group
C12_AddPortAddsOneOfEach ==
    [][IsAddStep =>
          \E p \in ProcessIds :
              /\ AddStepOn(p)
              /\ IF AddedResource.resourceType = "service"
                 THEN \A q \in ProcessIds : ~GroupedAfter(q)
                 ELSE GroupedAfter(p)]_vars

\* C12 as stated: the new resource of every kind is then grouped under P
C12_AddedResourceGroupedUnderProcess ==
    [][IsAddStep =>
          \E p \in ProcessIds : AddStepOn(p) /\ GroupedAfter(p)]_vars

\* a mechanism port was added to the second process: its resource is linked to it
C12_Witness ==
    /\ lastOp = "addMechanismPort"
    /\ \E i \in DOMAIN connections :
          /\ connections[i].to.node = 10
          /\ connections[i].from.node = graphNodes[Len(graphNodes)].id
          /\ NodeOf(graphNodes, connections[i].from.node).resourceType = "service"

EndpointsPresent(nodes, conns) ==
    \A i \in DOMAIN conns : hasPort(nodes, conns[i].from) /\ hasPort(nodes, conns[i].to)

\* this step ran a layout pass: a timer's, or the one an add handler ends with
PassStep ==
    \/ Len(timers) > 0 /\ timers[1] = [left |-> 0, cb |-> "autoArrangeNodes"] /\ timers' = Tail(timers)
    \/ editCount' = editCount + 1 /\ lastOp' # "deleteNode"

GroupOwners(pass) ==
    {pass.inputGroups.keys[i] : i \in DOMAIN pass.inputGroups.keys}
        \cup {pass.outputGroups.keys[i] : i \in DOMAIN pass.outputGroups.keys}

C15_NoProcessNothingMoves ==
    [][ProcessIds = {} /\ passCount' = passCount + 1 =>
          \A i \in DOMAIN graphNodes : graphNodes'[i].position = graphNodes[i].position]_vars

(***************************************************************************)
(* C16.  A newly created process has exactly two left input ports, six     *)
(* bottom mechanism ports and two right output ports, with ten pairwise    *)
(* distinct field paths.  A newly created resource has one output port (on *)
(* the right for kind input, on top for machine, energy, gas, water,       *)
(* service and property) and, for kind output, one left input port and one *)
(* right output port.  No operation changes the side of a port afterwards. *)
(***************************************************************************)
ProcessShape(n) ==
    /\ Len(n.inputs) = 8
    /\ Len(n.outputs) = 2
    /\ Len(portsAt(n, "inputs", "left")) = 2
    /\ Len(portsAt(n, "inputs", "bottom")) = 6
    /\ Len(portsAt(n, "outputs", "right")) = 2
    /\ Cardinality({n.inputs[k].fieldPath : k \in DOMAIN n.inputs}
                       \cup {n.outputs[k].fieldPath : k \in DOMAIN n.outputs}) = 10

ResourceShape(n) ==
    /\ Len(n.outputs) = 1
    /\ n.outputs[1].location = IF n.resourceType \in {"input", "output"} THEN "right" ELSE "top"
    /\ IF n.resourceType = "output"
       THEN Len(n.inputs) = 1 /\ n.inputs[1].location = "left"
       ELSE Len(n.inputs) = 0

\* the side of the port of node n with this key, "" if there is none
SideOf(nodes, n, io, key) ==
    LET found == SelectSeq(NodeOf(nodes, n)[io], LAMBDA port : port.key = key)
    IN IF Len(found) > 0 THEN found[1].location ELSE ""

PortKeysOf(nodes, n, io) == {NodeOf(nodes, n)[io][k].key : k \in DOMAIN NodeOf(nodes, n)[io]}

WellFormed(value) ==
    \E i, j \in DOMAIN value :
        /\ value[i] = "@"
        /\ value[j] = "."
        /\ \A part \in {SubSeq(value, 1, i - 1), SubSeq(value, i + 1, j - 1),
                         SubSeq(value, j + 1, Len(value))} :
              part # <<>> /\ \A k \in DOMAIN part : part[k] \notin {" ", "@"}

\* this step is a call of handleSaveFlow: a click on Save, or the timer of the sign-in
SaveCall ==
    /\ lastOp' = "handleSaveFlow"
    /\ \/ saveClicks' = saveClicks + 1
       \/ Len(timers) > 0 /\ timers[1] = [left |-> 0, cb |-> "handleSaveFlow"]
             /\ timers' = Tail(timers)

\* this step sent a request
Sent == fetching = <<>> /\ fetching' # <<>>

\* the contact as the call leaves it is complete
ContactComplete == trim(contactPhone') # <<>> /\ WellFormed(trim(contactEmail'))

SentOnlyComplete ==
    Sent => /\ SaveCall
            /\ ContactComplete
            /\ fetching'[1].method \in {"POST", "PUT"}
            /\ fetching'[1].contact = [email |-> trim(contactEmail'), phone |-> trim(contactPhone')]

CentredOn(items, p) ==
    Len(items) > 0 => Top(items[1]) + Bottom(items[Len(items)]) = Top(p) + Bottom(p)

C18_LandscapeGroupsBesideOwner ==
    JustArranged /\ ~lastPass.portrait =>
        /\ \A p \in DOMAIN lastPass.inputGroups.items :
              LET items == lastPass.inputGroups.items[p]
              IN /\ \A i \in DOMAIN items : Right(items[i]) = Left(p) - Px(220)
                 /\ CentredOn(items, p)
        /\ \A p \in DOMAIN lastPass.outputGroups.items :
              LET items == lastPass.outputGroups.items[p]
              IN /\ \A i \in DOMAIN items : Left(items[i]) = Right(p) + Px(220)
                 /\ CentredOn(items, p)

\* ---------------------------------------------------------------------------
\* C19

NudgesDone == \A i \in DOMAIN frames : frames[i] \notin {"nudgeUp", "nudgeDown"}

\* C19: a connection refresh is position-neutral: whenever no nudge of a
\* refresh is still to run, i.e. every +0.01 has been followed by its -0.01,
\* every node is exactly at the position the latest layout pass, load or drag
\* gave it, whatever ran between the two nudges.
C19_RefreshIsPositionNeutral ==
    NudgesDone => \A id \in IdSet(graphNodes) : NodeOf(graphNodes, id).position = given[id]

\* ---------------------------------------------------------------------------
\* C20

FollowsViewport == lastPass.ran /\ lastPass.portrait = isVertical

\* C20: after the window has been resized or rotated, a layout pass
\* eventually runs for the new viewport, so that the diagram is laid out for
\* the orientation the window now has, even when no node or connection is
\* added or removed afterwards.
C20_ResizeLeadsToPass == (lastOp = "resize") ~> FollowsViewport

\* ---------------------------------------------------------------------------
\* C21

PassTimers(ts) == CountCb(ts, "autoArrangeNodes")

\* the watcher callback ran with the flag clear in this step
WatcherNotified ==
    /\ Len(graphNodes') # Len(graphNodes) \/ Len(connections') # Len(connections)
    /\ lastOp' # "applyFlowPayload"

\* this step is one whole layout pass started by the first, due, timer
WholeTimerPass ==
    /\ Len(timers) > 0
    /\ timers[1] = [left |-> 0, cb |-> "autoArrangeNodes"]
    /\ timers' = Tail(timers)
    /\ lastOp' = "autoArrangeNodes"
    /\ graphNodes' = autoArrangeNodes(View(graphNodes), frames).nodes

\* C21: scheduled layout passes are never cancelled and never overlap: every
\* watcher notification made while the suppress flag is clear adds a pass
\* timer on top of the pending ones, and a pass timer leaves the queue only
\* one at a time, by running as one whole pass that no other callback
\* interrupts.
C21_PassesNeverCancelledNorOverlap ==
    [][/\ WatcherNotified => PassTimers(timers') >= PassTimers(timers) + 1
       /\ PassTimers(timers') >= PassTimers(timers) - 1
       /\ PassTimers(timers') < PassTimers(timers) => WholeTimerPass]_vars

\* after an edit, one of several pending passes has run and another is still pending
C21_Witness ==
    /\ editCount > 0
    /\ lastOp = "autoArrangeNodes"
    /\ PassTimers(timers) > 0

\* ---------------------------------------------------------------------------
\* C22

\* the processes other than the primary one of the last pass, in creation order
SecondaryOfPass == secondaryProcesses(Now, lastPass.main)

PlacedOutputs ==
    UNION {{lastPass.outputGroups.items[p][i] : i \in DOMAIN lastPass.outputGroups.items[p]} :
             p \in DOMAIN lastPass.outputGroups.items}

\* C22: after a landscape layout pass the secondary processes form one
\* vertical column, centred on one vertical line, stacked in node-creation
\* order with a gap of 40, and the left edge of each of them is to the right
\* of the right edge of every output resource the pass placed.
C22_SecondaryColumnRightOfOutputs ==
    JustArranged /\ ~lastPass.portrait =>
        LET s == SecondaryOfPass
        IN /\ \A i, j \in DOMAIN s : Left(s[i]) + Right(s[i]) = Left(s[j]) + Right(s[j])
           /\ \A i \in 1 .. (Len(s) - 1) : Top(s[i + 1]) = Bottom(s[i]) + Px(40)
           /\ \A i \in DOMAIN s : \A r \in PlacedOutputs : Right(r) < Left(s[i])

\* a landscape pass has placed two secondary processes of different widths and an
\* output resource
C22_Witness ==
    /\ JustArranged /\ ~lastPass.portrait
    /\ Len(SecondaryOfPass) >= 2
    /\ Right(SecondaryOfPass[1]) - Left(SecondaryOfPass[1])
          # Right(SecondaryOfPass[2]) - Left(SecondaryOfPass[2])
    /\ PlacedOutputs # {}

\* ---------------------------------------------------------------------------
\* C23

RowOf(groups, p) == {groupOf(groups, p)[i] : i \in DOMAIN groupOf(groups, p)}

PrimaryOutputRow == RowOf(lastPass.outputGroups, lastPass.main)

\* C23: after a portrait layout pass every secondary process, and every
\* resource of the input row above a secondary process, lies at least 40
\* below the bottom of every resource of the primary process's output row;
\* the input row of a secondary process is above the process and its output
\* row below it, where the process is at the end of the pass.
C23_PortraitSecondaryBelowPrimaryOutputs ==
    JustArranged /\ lastPass.portrait =>
        \A i \in DOMAIN SecondaryOfPass :
            LET s == SecondaryOfPass[i]
            IN /\ \A o \in PrimaryOutputRow :
                     /\ Bottom(o) + Px(40) <= Top(s)
                     /\ \A r \in RowOf(lastPass.inputGroups, s) : Bottom(o) + Px(40) <= Top(r)
               /\ \A r \in RowOf(lastPass.inputGroups, s) : Bottom(r) <= Top(s)
               /\ \A r \in RowOf(lastPass.outputGroups, s) : Bottom(s) <= Top(r)

\* a portrait pass with an output row under the primary process and an input row
\* above a secondary process
C23_Witness ==
    /\ JustArranged /\ lastPass.portrait
    /\ PrimaryOutputRow # {}
    /\ \E i \in DOMAIN SecondaryOfPass : RowOf(lastPass.inputGroups, SecondaryOfPass[i]) # {}

\* ---------------------------------------------------------------------------
\* C24

\* the resources that are neither inputs nor outputs, in node-creation order
MechanismsInOrder == Ids(SelectSeq(graphNodes, LAMBDA n : n.id \in MechanismIds))

PrimaryRows ==
    RowOf(lastPass.inputGroups, lastPass.main) \cup RowOf(lastPass.outputGroups, lastPass.main)

\* C24: after a layout pass every resource that is neither an input nor an
\* output, connected to any process or to none, is in the one mechanism
\* stack, in node-creation order: in landscape a row (one top, gap 40) at
\* least 20 below the primary process; in portrait a column (one left edge,
\* gap 20) at least 90 right of the primary process and of its two rows.
C24_MechanismsInOneSharedStack ==
    JustArranged =>
        LET m == MechanismsInOrder
        IN IF lastPass.portrait
           THEN /\ \A i, j \in DOMAIN m : Left(m[i]) = Left(m[j])
                /\ \A i \in 1 .. (Len(m) - 1) : Top(m[i + 1]) = Bottom(m[i]) + Px(20)
                /\ lastPass.main # NoNode =>
                      \A i \in DOMAIN m : \A n \in PrimaryRows \cup {lastPass.main} :
                          Right(n) + Px(90) <= Left(m[i])
           ELSE /\ \A i, j \in DOMAIN m : Top(m[i]) = Top(m[j])
                /\ \A i \in 1 .. (Len(m) - 1) : Left(m[i + 1]) = Right(m[i]) + Px(40)
                /\ lastPass.main # NoNode =>
                      \A i \in DOMAIN m : Bottom(lastPass.main) + Px(20) <= Top(m[i])

\* a pass has stacked an unconnected mechanism and one connected to a process
C24_Witness ==
    /\ JustArranged
    /\ Len(MechanismsInOrder) = 2
    /\ \E c \in 1 .. Len(connections) :
          connections[c].to.node = MechanismsInOrder[2]
          \/ connections[c].from.node = MechanismsInOrder[2]
    /\ \A c \in 1 .. Len(connections) :
          connections[c].to.node # MechanismsInOrder[1]
          /\ connections[c].from.node # MechanismsInOrder[1]

\* ---------------------------------------------------------------------------
\* C25

\* the ports the constructor gives a resource of a kind
PortsOfKind(resourceType) ==
    [inputs |-> NewResourceNode(0, resourceType).inputs,
     outputs |-> NewResourceNode(0, resourceType).outputs]

\* a saved state of a resource that lacks the kind or the fields its snapshot has
LacksWhatSnapshotHas(state, metas) ==
    /\ IsResource(state)
    /\ state.resourceType = "" \/ state.fields = <<>>
    /\ Len(metaById(metas, state.id)) > 0
    /\ metaById(metas, state.id)[1].resourceType # ""
    /\ metaById(metas, state.id)[1].fields # <<>>

\* C25: when applyFlowPayload loads a payload in which the saved state of a
\* resource node lacks the kind or the fields while the node's snapshot has
\* both, the loaded node has the snapshot's kind and fields and exactly the
\* ports of that kind: for an output resource one left input port and one
\* right output port.
C25_LoadMergesSnapshotIntoState ==
    [][lastOp' = "applyFlowPayload" /\ Len(fetching) > 0 =>
          \A i \in DOMAIN fetching[1].body.graph.nodes :
              LET state == fetching[1].body.graph.nodes[i]
                  meta == metaById(fetching[1].body.nodes, state.id)[1]
              IN LacksWhatSnapshotHas(state, fetching[1].body.nodes) =>
                    LET node == NodeOf(graphNodes', state.id)
                    IN /\ node.resourceType = meta.resourceType
                       /\ node.fields = meta.fields
                       /\ node.inputs = PortsOfKind(meta.resourceType).inputs
                       /\ node.outputs = PortsOfKind(meta.resourceType).outputs
                       /\ meta.resourceType = "output" =>
                             /\ Len(node.inputs) = 1 /\ node.inputs[1].location = "left"
                             /\ Len(node.outputs) = 1 /\ node.outputs[1].location = "right"]_vars

\* a flow whose saved state of the output resource had neither kind nor fields has
\* been loaded: the resource is an output with its edited fields, and still wired
C25_Witness ==
    /\ lastOp = "applyFlowPayload"
    /\ loaded.on
    /\ loaded.states[2].resourceType = "" /\ loaded.states[2].fields = <<>>
    /\ graphNodes[2].resourceType = "output"
    /\ graphNodes[2].fields[1][2] = "x"
    /\ Len(graphNodes[2].inputs) = 1
    /\ Len(connections) = 1

\* ---------------------------------------------------------------------------
\* C26

PortAt(ref) ==
    LET ports == NodeOf(graphNodes, ref.node)[ref.io]
    IN ports[CHOOSE k \in DOMAIN ports : ports[k].key = ref.key]

SideAt(ref) == renderedSide(NodeOf(graphNodes, ref.node), PortAt(ref))

\* the rendered sides of a connected pair, the process port first
SidesOf(c) ==
    IF IsProcess(NodeOf(graphNodes, c.from.node)) THEN <<SideAt(c.from), SideAt(c.to)>>
    ELSE <<SideAt(c.to), SideAt(c.from)>>

JoinsProcessAndResource(c) ==
    IsProcess(NodeOf(graphNodes, c.from.node)) # IsProcess(NodeOf(graphNodes, c.to.node))

\* what the process port of a connection is: an input, an output or a mechanism port
ProcessPortKind(c) ==
    IF IsProcess(NodeOf(graphNodes, c.from.node)) THEN "output"
    ELSE IF PortAt(c.to).location = "left" THEN "input" ELSE "mechanism"

SidesFacing ==
    \A i \in DOMAIN connections :
        LET c == connections[i]
        IN JoinsProcessAndResource(c) =>
              SidesOf(c) =
                 CASE ProcessPortKind(c) = "input" ->
                         IF isVertical THEN <<"top", "bottom">> ELSE <<"left", "right">>
                   [] ProcessPortKind(c) = "output" ->
                         IF isVertical THEN <<"bottom", "top">> ELSE <<"right", "left">>
                   [] OTHER ->
                         IF isVertical THEN <<"right", "left">> ELSE <<"bottom", "top">>

StoredSidesKept ==
    \A id \in IdSet(graphNodes) \cap IdSet(graphNodes') : \A io \in {"inputs", "outputs"} :
        \A k \in DOMAIN NodeOf(graphNodes, id)[io] : \A l \in DOMAIN NodeOf(graphNodes', id)[io] :
            NodeOf(graphNodes, id)[io][k].key = NodeOf(graphNodes', id)[io][l].key =>
               NodeOf(graphNodes, id)[io][k].location = NodeOf(graphNodes', id)[io][l].location

\* C26: in both orientations a process port and the resource port it is
\* connected to are drawn on opposite sides (landscape: input left/right,
\* output right/left, mechanism bottom/top; portrait: input top/bottom,
\* output bottom/top, mechanism right/left), and no step, a resize
\* included, changes the stored side of a port.
C26_ConnectedPortsFaceEachOther == []SidesFacing /\ [][StoredSidesKept]_vars

\* a mounted diagram, turned to portrait, with a connected mechanism
C26_Witness ==
    /\ lastOp = "resize"
    /\ isVertical
    /\ \E i \in DOMAIN connections :
          JoinsProcessAndResource(connections[i]) /\ ProcessPortKind(connections[i]) = "mechanism"

\* ---------------------------------------------------------------------------------------
\* services/reownAppkit: the lazy initialization of the AppKit.
\* An initialization is one run of the async function whose promise initPromise holds; it
\* stops at each await: ensureBufferPolyfill ("polyfill"), the three imports ("imports"),
\* the import of the controllers ("controllers"), and ends "fulfilled" or "rejected".
\* Instances are numbered in the order createAppKit makes them; 0 is null and Rejected is
\* the promise's rejection as a caller receives it.

MaxCalls == 4

Rejected == 0 - 1

everyCaller == [init |-> 0, open |-> 0]

\* the outcome reaches every caller awaiting the promise of the initialization
settle(a, i, at, outcome) ==
    [a EXCEPT !.inits[i].at = at,
              !.inits[i].waiting = everyCaller,
              !.received = IF a.inits[i].waiting = everyCaller THEN @ ELSE @ \cup {outcome}]

\* initReownAppKit without the guard on initPromise: a call made while an initialization is
\* in progress begins another
initReownAppKitWithoutPromiseGuard(a, onToken, caller) ==
    IF a.appkitInstance # 0
    THEN [a EXCEPT !.received = @ \cup {a.appkitInstance}]
    ELSE IF ~a.projectId
         THEN [a EXCEPT !.received = @ \cup {0}]
         ELSE [a EXCEPT !.onTokenCallback = @ \/ onToken,
                        !.inits = Append(@, [at |-> "polyfill", appkit |-> 0,
                                             waiting |-> [everyCaller EXCEPT ![caller] = 1]]),
                        !.initPromise = Len(a.inits) + 1]

\* initReownAppKit(onToken), called by `caller` ("init": the application, "open":
\* openReownModal), up to its return
initReownAppKit(a, onToken, caller) ==
    IF a.appkitInstance # 0
    THEN [a EXCEPT !.received = @ \cup {a.appkitInstance}]
    ELSE IF a.initPromise # 0
         THEN IF a.inits[a.initPromise].at = "rejected"
              THEN [a EXCEPT !.received = @ \cup {Rejected}]
              ELSE [a EXCEPT !.inits[a.initPromise].waiting[caller] = @ + 1]
         ELSE IF ~a.projectId
              THEN [a EXCEPT !.received = @ \cup {0}]
              ELSE [a EXCEPT !.onTokenCallback = @ \/ onToken,
                             !.inits = Append(@, [at |-> "polyfill", appkit |-> 0,
                                                  waiting |-> [everyCaller EXCEPT ![caller] = 1]]),
                             !.initPromise = Len(a.inits) + 1]

appkitRest ==
    <<graphNodes, connections, scaling, panning, innerWidth, innerHeight, elements,
      suppressAutoArrange, timers, frames, dragging, draft, nextId, lastPass, passCount,
      editCount, dragMoves, loaded, contactEmail, contactPhone, storedEmail, authToken,
      currentFlowId, isSaving, pendingSave, saveError, saveStatus, fetching, saveClicks,
      given, autocomplete, flows>>

\* the application calls initReownAppKit, with or without a token callback
CallInitReownAppKit ==
    /\ appkit.calls < MaxCalls
    /\ \E onToken \in BOOLEAN :
          appkit' = [initReownAppKit(appkit, onToken, "init") EXCEPT !.calls = @ + 1]
    /\ lastOp' = "initReownAppKit"
    /\ UNCHANGED <<modalOpen, appkitRest>>

\* openReownModal up to its first await; after it ModalController.open() runs. The await
\* ends at once when initReownAppKit returned the instance or null.
CallOpenReownModal ==
    /\ appkit.calls < MaxCalls
    /\ appkit' = [initReownAppKit(appkit, FALSE, "open") EXCEPT !.calls = @ + 1]
    /\ modalOpen' = (modalOpen \/ appkit.appkitInstance # 0
                               \/ (appkit.initPromise = 0 /\ ~appkit.projectId))
    /\ lastOp' = "openReownModal"
    /\ UNCHANGED appkitRest

\* ensureBufferPolyfill resolves
PolyfillReady ==
    \E i \in 1..Len(appkit.inits) :
       /\ appkit.inits[i].at = "polyfill"
       /\ appkit' = [appkit EXCEPT !.inits[i].at = "imports"]
       /\ lastOp' = "ensureBufferPolyfill"
       /\ UNCHANGED <<modalOpen, appkitRest>>

\* the three imports resolve and createAppKit runs, or an import fails or has no
\* JsonRpcProvider and the function throws
ImportsReady ==
    \E i \in 1..Len(appkit.inits), ok \in BOOLEAN :
       /\ appkit.inits[i].at = "imports"
       /\ appkit' = IF ok
                    THEN [appkit EXCEPT !.created = @ + 1,
                                        !.inits[i].appkit = appkit.created + 1,
                                        !.inits[i].at = "controllers"]
                    ELSE settle(appkit, i, "rejected", Rejected)
       /\ lastOp' = IF ok THEN "createAppKit" ELSE "initFailed"
       /\ UNCHANGED <<modalOpen, appkitRest>>

\* the controllers are imported and subscribed to, appkitInstance is set and the promise
\* resolves with the instance, or the import fails; openReownModal then opens the dialog
ControllersReady ==
    \E i \in 1..Len(appkit.inits), ok \in BOOLEAN :
       /\ appkit.inits[i].at = "controllers"
       /\ appkit' = IF ok
                    THEN [settle(appkit, i, "fulfilled", appkit.inits[i].appkit)
                             EXCEPT !.appkitInstance = appkit.inits[i].appkit]
                    ELSE settle(appkit, i, "rejected", Rejected)
       /\ modalOpen' = (modalOpen \/ (ok /\ appkit.inits[i].waiting.open > 0))
       /\ lastOp' = IF ok THEN "appkitReady" ELSE "initFailed"
       /\ UNCHANGED appkitRest

\* VITE_REOWN_PROJECT_ID is set by the build or missing
InitAppKit ==
    /\ \E v \in EditorViewports : MountedEditor(v)
    /\ ToolbarIdle
    /\ appkit \in {[NoAppKit EXCEPT !.projectId = set] : set \in BOOLEAN}
    /\ autocomplete = NoAutocomplete
    /\ flows = NoFlows

NextAppKit ==
    \/ CallInitReownAppKit
    \/ CallOpenReownModal
    \/ PolyfillReady
    \/ ImportsReady
    \/ ControllersReady

SpecAppKit == InitAppKit /\ [][NextAppKit]_vars

\* C27: the AppKit is created at most once: whatever calls of initReownAppKit and
\* openReownModal are made, also while an initialization is in progress, createAppKit has
\* run at most once and all callers have received one and the same outcome.
C27_AppKitCreatedAtMostOnce ==
    /\ appkit.created <= 1
    /\ Len(appkit.inits) <= 1
    /\ Cardinality(appkit.received) <= 1
    /\ appkit.appkitInstance # 0 => appkit.received \subseteq {appkit.appkitInstance}

\* three callers, two of them arrived while the initialization was in progress, hold
\* the one instance
C27_Witness ==
    /\ appkit.calls >= 3
    /\ lastOp = "appkitReady"
    /\ appkit.received = {1}
    /\ appkit.created = 1
    /\ modalOpen

\* ---------------------------------------------------------------------------------------
\* The title autocomplete of a resource node (the component's title field).
\* titleDraft and title are sequences of characters. timer holds the query of the pending
\* debounce timer, requests the queries of the fetches in flight that were not aborted,
\* closing tells that the timer of handleTitleBlur is pending, and processed is the
\* trimmed query the latest run of fetchAutocomplete was given. The service answers a
\* query with options for it, modelled as <<query>>, or with none.

MaxTitleInputs == 4

AutoTitles ==
    {<<>>, <<"c">>, <<"c", " ">>, <<"c", "o">>, <<"c", "o", "f">>, <<" ", "t", "e", "a">>}

clearAutocomplete(a) == [a EXCEPT !.options = <<>>, !.open = FALSE]

\* fetchAutocomplete(query) up to its await; a request still in flight is the one
\* autocompleteAbort holds: it is aborted, and the finally of its run, which follows in
\* the same task, clears the loading flag the new run has just set
fetchAutocomplete(a, query) ==
    IF ~a.main
    THEN a
    ELSE IF Len(trim(query)) < 2
         THEN [clearAutocomplete(a) EXCEPT !.processed = trim(query)]
         ELSE [a EXCEPT !.requests = <<trim(query)>>,
                        !.loading = (a.requests = <<>>),
                        !.processed = trim(query)]

\* scheduleAutocomplete: the pending debounce timer is replaced
scheduleAutocomplete(a, query) == [a EXCEPT !.timer = <<query>>]

autocompleteRest ==
    <<graphNodes, connections, scaling, panning, innerWidth, innerHeight, elements,
      suppressAutoArrange, timers, frames, dragging, draft, nextId, lastPass, passCount,
      editCount, dragMoves, loaded, contactEmail, contactPhone, storedEmail, authToken,
      currentFlowId, isSaving, pendingSave, saveError, saveStatus, fetching, modalOpen,
      saveClicks, given, appkit, flows>>

\* the user changes the title field: v-model, then handleTitleInput
TitleInput ==
    /\ autocomplete.inputs < MaxTitleInputs
    /\ \E t \in AutoTitles \ {autocomplete.titleDraft} :
          autocomplete' =
             [(IF autocomplete.main THEN scheduleAutocomplete(autocomplete, t)
               ELSE autocomplete)
              EXCEPT !.titleDraft = t, !.title = trim(t), !.inputs = @ + 1]
    /\ lastOp' = "handleTitleInput"
    /\ UNCHANGED autocompleteRest

\* 250 ms pass without another input: the debounce timer runs fetchAutocomplete
AutocompleteTimerFire ==
    /\ autocomplete.timer # <<>>
    /\ autocomplete' = [fetchAutocomplete(autocomplete, autocomplete.timer[1])
                           EXCEPT !.timer = <<>>]
    /\ lastOp' = "fetchAutocomplete"
    /\ UNCHANGED autocompleteRest

\* the response to a request arrives: options for its query, no option, or a failure
AutocompleteResponse ==
    /\ autocomplete.requests # <<>>
    /\ \E outcome \in {"results", "empty", "failed"} :
          /\ autocomplete' =
                [(IF outcome = "failed"
                  THEN clearAutocomplete(autocomplete)
                  ELSE [autocomplete EXCEPT
                           !.options = IF outcome = "results"
                                       THEN <<autocomplete.requests[1]>> ELSE <<>>,
                           !.open = (outcome = "results")])
                 EXCEPT !.requests = <<>>, !.loading = FALSE]
          /\ lastOp' = "autocompleteResponse"
    /\ UNCHANGED autocompleteRest

\* handleTitleFocus
TitleFocus ==
    /\ autocomplete.main
    /\ autocomplete.options # <<>>
    /\ ~autocomplete.open
    /\ autocomplete' = [autocomplete EXCEPT !.open = TRUE]
    /\ lastOp' = "handleTitleFocus"
    /\ UNCHANGED autocompleteRest

\* handleTitleBlur: syncTitle, and the list closes 120 ms later
TitleBlur ==
    /\ ~autocomplete.closing
    /\ autocomplete.open
    /\ autocomplete' = [autocomplete EXCEPT !.title = trim(autocomplete.titleDraft),
                                            !.closing = TRUE]
    /\ lastOp' = "handleTitleBlur"
    /\ UNCHANGED autocompleteRest

BlurTimerFire ==
    /\ autocomplete.closing
    /\ autocomplete' = [autocomplete EXCEPT !.open = FALSE, !.closing = FALSE]
    /\ lastOp' = "blurTimer"
    /\ UNCHANGED autocompleteRest

\* selectAutocompleteOption: the option's label becomes the title and the list is cleared
SelectOption ==
    /\ autocomplete.open
    /\ autocomplete.options # <<>>
    /\ autocomplete' = [clearAutocomplete(autocomplete)
                           EXCEPT !.titleDraft = autocomplete.options[1],
                                  !.title = autocomplete.options[1]]
    /\ lastOp' = "selectAutocompleteOption"
    /\ UNCHANGED autocompleteRest

\* a resource node flagged lcaAutocompleteMainProduct, or any other resource node
InitAutocomplete ==
    /\ \E v \in EditorViewports : MountedEditor(v)
    /\ ToolbarIdle
    /\ appkit = NoAppKit
    /\ autocomplete \in {[NoAutocomplete EXCEPT !.main = main] : main \in BOOLEAN}
    /\ flows = NoFlows

NextAutocomplete ==
    \/ TitleInput
    \/ AutocompleteTimerFire
    \/ AutocompleteResponse
    \/ TitleFocus
    \/ TitleBlur
    \/ BlurTimerFire
    \/ SelectOption

SpecAutocomplete == InitAutocomplete /\ [][NextAutocomplete]_vars

\* the options shown are answers to the query processed last, and nothing is shown or
\* open once a query shorter than 2 characters was processed
ListOfLatestInput ==
    /\ autocomplete.options # <<>> => autocomplete.options = <<autocomplete.processed>>
    /\ Len(autocomplete.processed) < 2
          => autocomplete.options = <<>> /\ ~autocomplete.open

\* the loading flag is true exactly while a request is in flight
LoadingWhileInFlight == autocomplete.loading <=> autocomplete.requests # <<>>

\* C28: the suggestion list always reflects the latest title input (no response of an
\* older request replaces or re-opens it after a newer input was processed, also a newer
\* input shorter than 2 characters), and the loading flag is true exactly while a
\* request is in flight.
C28_ListReflectsLatestInput == ListOfLatestInput /\ LoadingWhileInFlight

\* ---------------------------------------------------------------------------------------
\* The flow server (server/src/index.ts). stored maps the ids of the files in the storage
\* directory to their contents, in the order of their creation; creator records for each
\* id the owner the POST that created it derived from its token; putting holds the PUT
\* handlers between readFlow and writeFlow; response is the latest response sent. A field
\* a body or a flow does not have is "". Time is the number of requests received.

MaxRequests == 3

Tokens == {"", "alice", "bob"}

\* sha256(token).slice(0, 16)
ownerOfToken(token) == "sha256:" \o token

getUpdater(token, body) ==
    IF token # "" THEN ownerOfToken(token)
    ELSE IF body.email # "" THEN "email:" \o body.email ELSE "anonymous"

\* the request bodies: the fields of a flow payload that matter here, with or without
\* an id and an owner of the sender's choice
Bodies ==
    [id : {"", "flow-9"}, owner : {"", ownerOfToken("bob")}, email : {"", "a@b.co"},
     graph : {"g1", "g2"}]

RequestIds == {"flow-1", "flow-2", "flow-9"}

\* crypto.randomUUID(): an id no flow has
randomUUID(stored) == "flow-" \o ToString(Len(stored) + 1)

hasFlow(stored, id) == \E i \in 1..Len(stored) : stored[i].file = id

flowAt(stored, id) == stored[CHOOSE i \in 1..Len(stored) : stored[i].file = id].flow

\* writeFlow(id, payload)
writeFlow(stored, id, payload) ==
    IF hasFlow(stored, id)
    THEN [i \in 1..Len(stored) |->
             IF stored[i].file = id THEN [file |-> id, flow |-> payload] ELSE stored[i]]
    ELSE Append(stored, [file |-> id, flow |-> payload])

\* b if the body has the field, else the flow's
spread(a, b) == IF b # "" THEN b ELSE a

\* the payload of POST: {...req.body, id, createdAt, updatedAt, owner, lastUpdatedBy}
postPayload(body, id, now, token) ==
    [id |-> id, createdAt |-> now, updatedAt |-> now, owner |-> ownerOfToken(token),
     lastUpdatedBy |-> getUpdater(token, body), email |-> body.email, graph |-> body.graph]

\* the payload of PUT: {...existing, ...req.body, id, updatedAt, lastUpdatedBy}
putPayload(existing, body, id, now, token) ==
    [id |-> id, createdAt |-> existing.createdAt, updatedAt |-> now,
     owner |-> spread(existing.owner, body.owner),
     lastUpdatedBy |-> getUpdater(token, body),
     email |-> spread(existing.email, body.email), graph |-> body.graph]

flowsRest ==
    <<graphNodes, connections, scaling, panning, innerWidth, innerHeight, elements,
      suppressAutoArrange, timers, frames, dragging, draft, nextId, lastPass, passCount,
      editCount, dragMoves, loaded, contactEmail, contactPhone, storedEmail, authToken,
      currentFlowId, isSaving, pendingSave, saveError, saveStatus, fetching, modalOpen,
      saveClicks, given, appkit, autocomplete>>

\* app.post("/api/flows")
PostFlow ==
    /\ flows.requests < MaxRequests
    /\ \E token \in Tokens, body \in Bodies :
          flows' =
             IF token = ""
             THEN [flows EXCEPT !.response = [status |-> 401, id |-> ""],
                                !.requests = @ + 1]
             ELSE [flows EXCEPT
                      !.stored = writeFlow(@, randomUUID(flows.stored),
                                           postPayload(body, randomUUID(flows.stored),
                                                       flows.requests + 1, token)),
                      !.creator = Append(@, ownerOfToken(token)),
                      !.response = [status |-> 200, id |-> randomUUID(flows.stored)],
                      !.requests = @ + 1]
    /\ lastOp' = "POST"
    /\ UNCHANGED flowsRest

\* app.put("/api/flows/:id") up to the end of readFlow: the file is read, or there is
\* none and the response is 404
PutFlow ==
    /\ flows.requests < MaxRequests
    /\ \E id \in RequestIds, token \in Tokens, body \in Bodies :
          flows' =
             IF hasFlow(flows.stored, id)
             THEN [flows EXCEPT
                      !.putting = Append(@, [id |-> id, existing |-> flowAt(flows.stored, id),
                                             body |-> body, token |-> token,
                                             now |-> flows.requests + 1]),
                      !.requests = @ + 1]
             ELSE [flows EXCEPT !.response = [status |-> 404, id |-> id],
                                !.requests = @ + 1]
    /\ lastOp' = "PUT"
    /\ UNCHANGED flowsRest

\* the rest of a PUT handler: writeFlow and the response
PutFlowWrite ==
    /\ \E k \in 1..Len(flows.putting) :
          \E p \in {flows.putting[k]} :
             flows' =
                [flows EXCEPT
                    !.stored = writeFlow(@, p.id,
                                         putPayload(p.existing, p.body, p.id, p.now, p.token)),
                    !.putting = SubSeq(@, 1, k - 1) \o SubSeq(@, k + 1, Len(@)),
                    !.response = [status |-> 200, id |-> p.id]]
    /\ lastOp' = "writeFlow"
    /\ UNCHANGED flowsRest

\* app.get("/api/flows/:id")
GetFlow ==
    /\ flows.requests < MaxRequests
    /\ \E id \in RequestIds :
          flows' = [flows EXCEPT
                       !.response = [status |-> IF hasFlow(flows.stored, id) THEN 200
                                                ELSE 404,
                                     id |-> id],
                       !.requests = @ + 1]
    /\ lastOp' = "GET"
    /\ UNCHANGED flowsRest

InitFlows ==
    /\ \E v \in EditorViewports : MountedEditor(v)
    /\ ToolbarIdle
    /\ appkit = NoAppKit
    /\ autocomplete = NoAutocomplete
    /\ flows = NoFlows

NextFlows ==
    \/ PostFlow
    \/ PutFlow
    \/ PutFlowWrite
    \/ GetFlow

SpecFlows == InitFlows /\ [][NextFlows]_vars

\* every stored flow has the id it is stored under and the owner its creation gave it
FlowIdentityFixed ==
    \A i \in 1..Len(flows.stored) :
       /\ flows.stored[i].flow.id = flows.stored[i].file
       /\ flows.stored[i].flow.owner = flows.creator[i]

\* a PUT to an id nothing is stored under is answered 404 and stores nothing, and only
\* such a PUT is
PutToUnknownRefused ==
    lastOp' = "PUT" /\ flows'.requests > flows.requests
       => /\ flows'.stored = flows.stored
          /\ flows'.putting = flows.putting
                => /\ flows'.response.status = 404
                   /\ ~hasFlow(flows.stored, flows'.response.id)
          /\ flows'.putting # flows.putting
                => /\ hasFlow(flows.stored, flows'.putting[Len(flows'.putting)].id)
                   /\ flows'.response = flows.response

\* C29: a stored flow's id and owner are fixed at creation: after any POST and PUT
\* requests the flow stored under an id has that id and the owner derived from the token
\* that created it, whatever the request bodies contain; a PUT to an unknown id returns
\* 404 and stores nothing.
C29_IdAndOwnerFixedAtCreation ==
    /\ []FlowIdentityFixed
    /\ [][PutToUnknownRefused]_vars

\* the id is fixed, and a PUT to an unknown id returns 404 and stores nothing
IdFixedAndUnknownPutRefused ==
    /\ [](\A i \in 1..Len(flows.stored) : flows.stored[i].flow.id = flows.stored[i].file)
    /\ [][PutToUnknownRefused]_vars

\* ---------------------------------------------------------------------------------------
\* ProcessNode.makeKey and addFlowInterface called with arbitrary names. A name is a
\* sequence of characters; a side, a flow type and a field path are written out by
\* Chars. "" is the field path left undefined.

MaxPortCalls == 3

Chars(s) ==
    CASE s = "input" -> <<"i", "n", "p", "u", "t">>
      [] s = "output" -> <<"o", "u", "t", "p", "u", "t">>
      [] s = "service" -> <<"s", "e", "r", "v", "i", "c", "e">>
      [] s = "knowHow" -> <<"k", "n", "o", "w", "H", "o", "w">>
      [] s = "material" -> <<"m", "a", "t", "e", "r", "i", "a", "l">>
      [] s = "product" -> <<"p", "r", "o", "d", "u", "c", "t">>
      [] s = "inputInstance.material" ->
            <<"i", "n", "p", "u", "t", "I", "n", "s", "t", "a", "n", "c", "e", ".",
              "m", "a", "t", "e", "r", "i", "a", "l">>
      [] s = "output.mainProduct" ->
            <<"o", "u", "t", "p", "u", "t", ".", "m", "a", "i", "n", "P", "r", "o", "d",
              "u", "c", "t">>
      [] OTHER -> <<>>

\* the names of the ports added: the same name twice over, names that differ in case
\* and punctuation only, and a name that is another name's first probe
PortNames ==
    {<<"I", "n", "p", "u", "t", " ", "3">>,
     <<"i", "n", "p", "u", "t", "-", "-", "3", ")">>,
     <<"I", "n", "p", "u", "t", " ", "3", "_", "1">>}

FlowSides == {"input", "output", "knowHow", "service"}

FlowTypes == {"material", "product"}

FieldPaths == {"", "inputInstance.material", "output.mainProduct"}

toLowerCase(c) ==
    CASE c = "I" -> "i" [] c = "H" -> "h" [] c = "P" -> "p" [] OTHER -> c

alphanumeric ==
    {"a", "b", "c", "d", "e", "f", "g", "h", "i", "j", "k", "l", "m", "n", "o", "p", "q",
     "r", "s", "t", "u", "v", "w", "x", "y", "z", "0", "1", "2", "3", "4", "5", "6", "7",
     "8", "9"}

\* .replace(/[^a-z0-9]+/g, "_"): each run of other characters becomes one underscore
RECURSIVE replaceRuns(_, _, _)
replaceRuns(cs, done, inRun) ==
    IF cs = <<>> THEN done
    ELSE IF Head(cs) \in alphanumeric
         THEN replaceRuns(Tail(cs), Append(done, Head(cs)), FALSE)
         ELSE replaceRuns(Tail(cs), IF inRun THEN done ELSE Append(done, "_"), TRUE)

\* .replace(/^_+|_+$/g, "")
RECURSIVE stripUnderscores(_)
stripUnderscores(cs) ==
    IF cs = <<>> THEN cs
    ELSE IF Head(cs) = "_" THEN stripUnderscores(Tail(cs))
    ELSE IF cs[Len(cs)] = "_" THEN stripUnderscores(SubSeq(cs, 1, Len(cs) - 1))
    ELSE cs

RECURSIVE Join(_)
Join(cs) == IF cs = <<>> THEN "" ELSE Head(cs) \o Join(Tail(cs))

\* fieldPath ?? `${side}_${flowType}_${name}`
sourceOfKey(name, side, flowType, fieldPath) ==
    IF fieldPath # "" THEN Chars(fieldPath)
    ELSE Chars(side) \o <<"_">> \o Chars(flowType) \o <<"_">> \o name

normalize(source) ==
    Join(stripUnderscores(replaceRuns([i \in DOMAIN source |-> toLowerCase(source[i])],
                                      <<>>, FALSE)))

\* the normalized source of each call the model makes
normalizedOf ==
    [name \in PortNames, side \in FlowSides, flowType \in FlowTypes, fieldPath \in FieldPaths |->
        normalize(sourceOfKey(name, side, flowType, fieldPath))]

normalized(name, side, flowType, fieldPath) == normalizedOf[name, side, flowType, fieldPath]

ioCollection(node, side) == IF side \in {"output", "knowHow"} THEN node.outputs ELSE node.inputs

keysOf(ports) == {ports[i].key : i \in 1..Len(ports)}

\* the loop of makeKey: the key it ends with and the value of index then
RECURSIVE probe(_, _, _, _)
probe(key, start, index, keys) ==
    IF key \notin keys THEN [key |-> key, index |-> index]
    ELSE probe(start \o "_" \o ToString(index), start, index + 1, keys)

\* makeKey without its loop
makeKeyWithoutProbing(node, name, side, flowType, fieldPath) ==
    normalized(name, side, flowType, fieldPath)

makeKey(node, name, side, flowType, fieldPath) ==
    probe(normalized(name, side, flowType, fieldPath),
          normalized(name, side, flowType, fieldPath), 1,
          keysOf(ioCollection(node, side))).key

\* a caller adds a port to the process node
AddFlowInterface ==
    /\ editCount < MaxPortCalls
    /\ \E name \in PortNames, side \in FlowSides, flowType \in FlowTypes,
          fieldPath \in FieldPaths :
          graphNodes' =
             <<addFlowInterface(graphNodes[1],
                                makeKey(graphNodes[1], name, side, flowType, fieldPath),
                                side, fieldPath)>>
    /\ editCount' = editCount + 1
    /\ lastOp' = "addFlowInterface"
    /\ UNCHANGED <<connections, scaling, panning, innerWidth, innerHeight, elements,
                   suppressAutoArrange, timers, frames, dragging, draft, nextId, lastPass,
                   passCount, dragMoves, loaded, saveVars, given>>

\* a process node as its constructor leaves it
InitProcess ==
    /\ graphNodes = <<NewProcessNode(1)>>
    /\ connections = <<>>
    /\ scaling = 1
    /\ panning = [x |-> 0, y |-> 0]
    /\ innerWidth = Px(1600)
    /\ innerHeight = Px(900)
    /\ elements = renderAll(graphNodes)
    /\ suppressAutoArrange = FALSE
    /\ timers = <<>>
    /\ frames = <<>>
    /\ dragging = NoNode
    /\ draft = <<>>
    /\ nextId = 2
    /\ lastOp = "constructor"
    /\ lastPass = NoPass
    /\ passCount = 0
    /\ editCount = 0
    /\ dragMoves = 0
    /\ loaded = NoLoad
    /\ given = Positions(graphNodes)
    /\ SaveIdle

NextProcess == AddFlowInterface

SpecProcess == InitProcess /\ [][NextProcess]_vars

\* after n calls the node has 10 + n ports, under distinct keys in each collection
TenPlusCalls ==
    /\ Len(graphNodes[1].inputs) + Len(graphNodes[1].outputs) = 10 + editCount
    /\ Cardinality(keysOf(graphNodes[1].inputs)) = Len(graphNodes[1].inputs)
    /\ Cardinality(keysOf(graphNodes[1].outputs)) = Len(graphNodes[1].outputs)

\* for any arguments the loop of makeKey ends after at most as many probes as the
\* collection has ports, with a key the collection does not have
ProbingTerminates ==
    \A name \in PortNames, side \in FlowSides, flowType \in FlowTypes, fieldPath \in FieldPaths :
       /\ makeKey(graphNodes[1], name, side, flowType, fieldPath)
             \notin keysOf(ioCollection(graphNodes[1], side))
       /\ probe(normalized(name, side, flowType, fieldPath),
                normalized(name, side, flowType, fieldPath), 1,
                keysOf(ioCollection(graphNodes[1], side))).index
             <= Len(ioCollection(graphNodes[1], side)) + 1

\* a call appends one port to one collection and leaves every port there was as it was
AppendsOnePort ==
    lastOp' = "addFlowInterface" /\ editCount' > editCount
       => \/ /\ Len(graphNodes'[1].inputs) = Len(graphNodes[1].inputs) + 1
             /\ SubSeq(graphNodes'[1].inputs, 1, Len(graphNodes[1].inputs))
                   = graphNodes[1].inputs
             /\ graphNodes'[1].outputs = graphNodes[1].outputs
          \/ /\ Len(graphNodes'[1].outputs) = Len(graphNodes[1].outputs) + 1
             /\ SubSeq(graphNodes'[1].outputs, 1, Len(graphNodes[1].outputs))
                   = graphNodes[1].outputs
             /\ graphNodes'[1].inputs = graphNodes[1].inputs

\* C30: addFlowInterface always stores the new port under a key not yet used in its
\* collection: the probing loop of makeKey terminates, no existing port is ever replaced,
\* and after n calls on a freshly constructed process node the node has exactly 10 + n
\* ports in creation order.
C30_NewPortUnderUnusedKey ==
    /\ [](TenPlusCalls /\ ProbingTerminates)
    /\ [][AppendsOnePort]_vars

\* the same name was added twice and then a name that normalizes to the key the second
\* call had probed: the third port got the probe of the probe
C30_Witness ==
    /\ editCount = 3
    /\ Len(graphNodes[1].inputs) = 11
    /\ graphNodes[1].inputs[9].key = "input_material_input_3"
    /\ graphNodes[1].inputs[10].key = "input_material_input_3_1"
    /\ graphNodes[1].inputs[11].key = "input_material_input_3_1_1"

====
